---- MODULE Spec2Model ----
(***************************************************************************)
(* Model of the pro-bet-tracker bankroll and analytics engine.             *)
(*                                                                         *)
(* Money is kept in integer cents.  A JavaScript ratio (roi, flatROI,      *)
(* winRate, a unit profit) is kept as an exact fraction [n, d] in lowest   *)
(* terms with d >= 0; d = 0 stands for the IEEE results of a division by   *)
(* zero: [1,0] is Infinity, [-1,0] is -Infinity and [0,0] is NaN.          *)
(* A calendar date string YYYY-MM-DD is kept as its day ordinal, so that   *)
(* string order is integer order.                                          *)
(***************************************************************************)
EXTENDS Integers, Sequences, FiniteSets, TLC

VARIABLES
    bets,             \* App state: useState<Bet[]>, newest first
    bookDeposits,     \* App state of the cloud revision: useState<BookDeposit[]>
    startingBankroll, \* App state of the local revision: << >> for null
    bankrollStats,    \* useMemo: calculateBankrollStats
    bookBalances,     \* useMemo: calculateBookBalances(bets, bookDeposits)
    advancedStats,    \* useMemo: calculateAdvancedStats(bets)
    bankrollHistory,  \* useMemo: calculateBankrollHistory(startingBalance, bets)
    pc,               \* which derivation of the render comes next
    editingId,        \* BetList state: the row in edit mode, 0 for null
    deleteConfirmId,  \* BetList state: the row asking to confirm, 0 for null
    editForm,         \* BetList state: << >> for {}, << fields >> otherwise
    dmStatus,         \* DataManagementModal state: 'idle' | 'success' | 'error'
    dmMessage,        \* DataManagementModal state: the message under the status
    requests,         \* Supabase calls awaiting their response
    nextId,           \* source of crypto.randomUUID() and Date.now()
    steps             \* handler calls of the run so far

derived == <<bankrollStats, bookBalances, advancedStats, bankrollHistory, pc>>

uiVars ==
    <<startingBankroll, editingId, deleteConfirmId, editForm, dmStatus, dmMessage,
      requests, nextId, steps>>

vars == <<bets, bookDeposits, derived, uiVars>>

----------------------------------------------------------------------------
(* Bounds of the model *)

\* longest bet collection of the ledger inputs
MaxLedgerBets == 2

\* longest bet collection of the streak inputs
MaxStreakBets == 4

\* longest bet collection of the history inputs
MaxHistoryBets == 3

\* the bet form adds a bet while the app holds fewer bets than this
MaxAppBets == 2

\* most bets the bet form adds in one run
MaxAdded == 2

\* most Supabase calls in flight
MaxRequests == 1

\* longest bet collection an import may leave
MaxHeld == 3

\* most handler calls of one run of the app
MaxSteps == 6

\* largest deposit of a book, in cents
MaxDeposit == 50000

----------------------------------------------------------------------------
(* types.ts / constants.ts *)

PENDING == "PENDING"
WON == "WON"
LOST == "LOST"
PUSH == "PUSH"

BetStatus == {PENDING, WON, LOST, PUSH}

SPORTSBOOKS ==
    << "DraftKings", "FanDuel", "BetMGM", "Caesars", "Bet365", "PointsBet",
       "theScore Bet", "Fliff", "Fanatics", "PrizePicks", "Underdog Fantasy",
       "Drafters", "Betr", "Other" >>

Range(s) == { s[i] : i \in 1..Len(s) }

\* setMessage(text); count is the number a message quotes
Message(text, count) == [text |-> text, count |-> count]

----------------------------------------------------------------------------
(* JavaScript number arithmetic on exact fractions *)

Abs(x) == IF x < 0 THEN -x ELSE x

Sign(x) == IF x > 0 THEN 1 ELSE IF x < 0 THEN -1 ELSE 0

RECURSIVE GCD(_, _)
GCD(a, b) == IF b = 0 THEN a ELSE GCD(b, a % b)

\* n / d as JavaScript evaluates it: a zero divisor gives Infinity or NaN
JsDiv(n, d) ==
    IF d = 0 THEN [n |-> Sign(n), d |-> 0]
    ELSE LET g == GCD(Abs(n), Abs(d))
             s == Sign(d)
         IN  [n |-> (s * n) \div g, d |-> (s * d) \div g]

JsInt(k) == [n |-> k, d |-> 1]

IsNaN(r) == r.d = 0 /\ r.n = 0

IsFiniteNumber(r) == r.d # 0

JsAdd(a, b) ==
    IF a.d = 0 /\ b.d = 0
    THEN (IF a.n = b.n THEN a ELSE [n |-> 0, d |-> 0])
    ELSE IF a.d = 0 THEN a
    ELSE IF b.d = 0 THEN b
    ELSE JsDiv(a.n * b.d + b.n * a.d, a.d * b.d)

\* r * k for an integer k > 0
JsScale(r, k) ==
    IF r.d = 0 THEN r ELSE JsDiv(r.n * k, r.d)

\* r / k for an integer k > 0
JsOver(r, k) ==
    IF r.d = 0 THEN r ELSE JsDiv(r.n, r.d * k)

----------------------------------------------------------------------------
(* calculatePotentialProfit: Math.round(profit * 100) / 100, in cents *)

calculatePotentialProfit(wager, odds) ==
    IF odds = 0 THEN 0
    ELSE IF odds > 0
         THEN (2 * wager * odds + 100) \div 200
         ELSE (200 * wager + Abs(odds)) \div (2 * Abs(odds))

----------------------------------------------------------------------------
(* calculateBookBalances *)

\* mutant: a pending wager is not deducted
BalanceEffect_PendingFree(bet) ==
    IF bet.status = WON THEN bet.potentialProfit
    ELSE IF bet.status = LOST THEN 0 - bet.wager
    ELSE 0

\* the effect of one bet on balanceChanges[bet.sportsbook]
BalanceEffect(bet) ==
    IF bet.status = WON THEN bet.potentialProfit
    ELSE IF bet.status = LOST THEN 0 - bet.wager
    ELSE IF bet.status = PENDING THEN 0 - bet.wager
    ELSE 0

\* mutant: a bet overwrites the change of its book instead of adding to it
RECURSIVE BalanceChange_Overwrites(_, _, _)
BalanceChange_Overwrites(bs, sb, k) ==
    IF k = 0 THEN 0
    ELSE IF bs[k].sportsbook = sb THEN BalanceEffect(bs[k])
    ELSE BalanceChange_Overwrites(bs, sb, k - 1)

\* balanceChanges[sb] after bets.forEach over the first k bets
RECURSIVE BalanceChange(_, _, _)
BalanceChange(bs, sb, k) ==
    IF k = 0 THEN 0
    ELSE BalanceChange(bs, sb, k - 1)
         + (IF bs[k].sportsbook = sb THEN BalanceEffect(bs[k]) ELSE 0)

\* mutant: only the first deposit entry is looked at
FindDeposit_FirstOnly(deps, sb, i) ==
    IF Len(deps) > 0 /\ deps[1].sportsbook = sb THEN 1 ELSE 0

\* deposits.find(d => d.sportsbook === sb): index of the first match, 0 if none
RECURSIVE FindDeposit(_, _, _)
FindDeposit(deps, sb, i) ==
    IF i > Len(deps) THEN 0
    ELSE IF deps[i].sportsbook = sb THEN i
    ELSE FindDeposit(deps, sb, i + 1)

DepositedFor(deps, sb) ==
    LET i == FindDeposit(deps, sb, 1)
    IN  IF i = 0 THEN 0 ELSE deps[i].deposited

calculateBookBalances(bs, deps) ==
    [ i \in 1..Len(SPORTSBOOKS) |->
        LET sb == SPORTSBOOKS[i]
            deposited == DepositedFor(deps, sb)
            change == BalanceChange(bs, sb, Len(bs))
        IN  [sportsbook |-> sb,
             deposited |-> deposited,
             currentBalance |-> deposited + change] ]

----------------------------------------------------------------------------
(* calculateBankrollStats *)

\* deposits.reduce((sum, d) => sum + d.deposited, 0)
RECURSIVE SumDeposited(_, _)
SumDeposited(deps, k) ==
    IF k = 0 THEN 0 ELSE SumDeposited(deps, k - 1) + deps[k].deposited

\* bookBalances.reduce((sum, b) => sum + b.currentBalance, 0)
RECURSIVE SumCurrentBalance(_, _)
SumCurrentBalance(bb, k) ==
    IF k = 0 THEN 0 ELSE SumCurrentBalance(bb, k - 1) + bb[k].currentBalance

\* const unitProfit = bet.odds > 0 ? bet.odds / 100 : 100 / Math.abs(bet.odds)
UnitProfit(odds) ==
    IF odds > 0 THEN JsDiv(odds, 100) ELSE JsDiv(100, Abs(odds))

\* mutant: a push counts as a settled unit bet
RECURSIVE StatsFold_PushSettles(_, _)
StatsFold_PushSettles(bs, k) ==
    IF k = 0
    THEN [totalWagered |-> 0, totalWon |-> 0, totalLost |-> 0,
          wins |-> 0, losses |-> 0, pushes |-> 0,
          flatUnitsWon |-> JsInt(0), flatBetsSettled |-> 0]
    ELSE LET a == StatsFold_PushSettles(bs, k - 1)
             bet == bs[k]
         IN  IF bet.status = WON
             THEN [a EXCEPT !.totalWon = @ + bet.potentialProfit,
                            !.totalWagered = @ + bet.wager,
                            !.wins = @ + 1,
                            !.flatUnitsWon = JsAdd(@, UnitProfit(bet.odds)),
                            !.flatBetsSettled = @ + 1]
             ELSE IF bet.status = LOST
             THEN [a EXCEPT !.totalLost = @ + bet.wager,
                            !.totalWagered = @ + bet.wager,
                            !.losses = @ + 1,
                            !.flatUnitsWon = JsAdd(@, JsInt(-1)),
                            !.flatBetsSettled = @ + 1]
             ELSE IF bet.status = PUSH
             THEN [a EXCEPT !.totalWagered = @ + bet.wager,
                            !.pushes = @ + 1,
                            !.flatBetsSettled = @ + 1]
             ELSE a

\* the accumulators of bets.forEach after the first k bets
RECURSIVE StatsFold(_, _)
StatsFold(bs, k) ==
    IF k = 0
    THEN [totalWagered |-> 0, totalWon |-> 0, totalLost |-> 0,
          wins |-> 0, losses |-> 0, pushes |-> 0,
          flatUnitsWon |-> JsInt(0), flatBetsSettled |-> 0]
    ELSE LET a == StatsFold(bs, k - 1)
             bet == bs[k]
         IN  IF bet.status = WON
             THEN [a EXCEPT !.totalWon = @ + bet.potentialProfit,
                            !.totalWagered = @ + bet.wager,
                            !.wins = @ + 1,
                            !.flatUnitsWon = JsAdd(@, UnitProfit(bet.odds)),
                            !.flatBetsSettled = @ + 1]
             ELSE IF bet.status = LOST
             THEN [a EXCEPT !.totalLost = @ + bet.wager,
                            !.totalWagered = @ + bet.wager,
                            !.losses = @ + 1,
                            !.flatUnitsWon = JsAdd(@, JsInt(-1)),
                            !.flatBetsSettled = @ + 1]
             ELSE IF bet.status = PUSH
             THEN [a EXCEPT !.totalWagered = @ + bet.wager,
                            !.pushes = @ + 1]
             ELSE a

\* mutant: a pushed wager is left out of the settled wager
RECURSIVE SettledWagered_WithoutPush(_, _)
SettledWagered_WithoutPush(bs, k) ==
    IF k = 0 THEN 0
    ELSE SettledWagered_WithoutPush(bs, k - 1)
         + (IF bs[k].status \in {WON, LOST} THEN bs[k].wager ELSE 0)

\* bets.filter(b => b.status !== PENDING).reduce((acc, b) => acc + b.wager, 0)
RECURSIVE SettledWagered(_, _)
SettledWagered(bs, k) ==
    IF k = 0 THEN 0
    ELSE SettledWagered(bs, k - 1)
         + (IF bs[k].status # PENDING THEN bs[k].wager ELSE 0)

\* mutant: currentBalance folded from the bets, as the single-bankroll
\* revision did, instead of summed over the book balances
calculateBankrollStats_FoldsBets(deps, bs) ==
    LET startingBalance == SumDeposited(deps, Len(deps))
        a == StatsFold(bs, Len(bs))
        settledWagered == SettledWagered(bs, Len(bs))
        netProfit == a.totalWon - a.totalLost
            IN  [startingBalance |-> startingBalance,
         currentBalance |-> startingBalance + netProfit
                            - (IF Len(bs) = 0 THEN 0
                               ELSE LET f[k \in 0..Len(bs)] ==
                                            IF k = 0 THEN 0
                                            ELSE f[k - 1] + (IF bs[k].status = PENDING
                                                             THEN bs[k].wager ELSE 0)
                                    IN  f[Len(bs)]),
         totalWagered |-> a.totalWagered,
         totalWon |-> a.totalWon,
         totalLost |-> a.totalLost,
         totalBets |-> Len(bs),
         wins |-> a.wins,
         losses |-> a.losses,
         pushes |-> a.pushes,
         roi |-> IF settledWagered > 0
                 THEN JsDiv(netProfit * 100, settledWagered)
                 ELSE JsInt(0),
         flatROI |-> IF a.flatBetsSettled > 0
                     THEN JsScale(JsOver(a.flatUnitsWon, a.flatBetsSettled), 100)
                     ELSE JsInt(0)]

calculateBankrollStats(deps, bs) ==
    LET startingBalance == SumDeposited(deps, Len(deps))
        books == calculateBookBalances(bs, deps)
        currentBalance == SumCurrentBalance(books, Len(books))
        a == StatsFold(bs, Len(bs))
        settledWagered == SettledWagered(bs, Len(bs))
        netProfit == a.totalWon - a.totalLost
    IN  [startingBalance |-> startingBalance,
         currentBalance |-> currentBalance,
         totalWagered |-> a.totalWagered,
         totalWon |-> a.totalWon,
         totalLost |-> a.totalLost,
         totalBets |-> Len(bs),
         wins |-> a.wins,
         losses |-> a.losses,
         pushes |-> a.pushes,
         roi |-> IF settledWagered > 0
                 THEN JsDiv(netProfit * 100, settledWagered)
                 ELSE JsInt(0),
         flatROI |-> IF a.flatBetsSettled > 0
                     THEN JsScale(JsOver(a.flatUnitsWon, a.flatBetsSettled), 100)
                     ELSE JsInt(0)]

----------------------------------------------------------------------------
(* calculateAdvancedStats *)

\* bets.filter(b => b.status !== BetStatus.PENDING)
RECURSIVE FilterNotPending(_, _)
FilterNotPending(bs, k) ==
    IF k = 0 THEN << >>
    ELSE IF bs[k].status # PENDING
         THEN Append(FilterNotPending(bs, k - 1), bs[k])
         ELSE FilterNotPending(bs, k - 1)

\* Array.prototype.sort is stable: x goes behind every element that the
\* comparator (b, a) => b.createdAt - a.createdAt does not put after it
RECURSIVE InsertNewestFirst(_, _)
InsertNewestFirst(s, x) ==
    IF s = << >> THEN << x >>
    ELSE IF Head(s).createdAt >= x.createdAt
         THEN << Head(s) >> \o InsertNewestFirst(Tail(s), x)
         ELSE << x >> \o s

RECURSIVE SortNewestFirst(_, _)
SortNewestFirst(s, k) ==
    IF k = 0 THEN << >> ELSE InsertNewestFirst(SortNewestFirst(s, k - 1), s[k])

\* mutant: the caller's array is sorted, then filtered
ArraysOfAdvancedStats_SortsBets(bs) ==
    LET sorted == [bets |-> SortNewestFirst(bs, Len(bs))]
    IN  [bets |-> sorted.bets,
         settledBets |-> FilterNotPending(sorted.bets, Len(sorted.bets))]

\* the arrays of a call: bets is the caller's; .filter(...) returns a new
\* array, which .sort(...) then reorders in place
ArraysOfAdvancedStats(bs) ==
    LET filtered == [bets |-> bs, settledBets |-> FilterNotPending(bs, Len(bs))]
    IN  [filtered EXCEPT !.settledBets = SortNewestFirst(@, Len(@))]

SettledBets(bs) == ArraysOfAdvancedStats(bs).settledBets

\* settledBets.slice(0, 10).map(b => b.status)
Last10(sb) ==
    [ i \in 1..(IF Len(sb) < 10 THEN Len(sb) ELSE 10) |-> sb[i].status ]

\* mutant: a PUSH ends the scan
RECURSIVE StreakScan_PushBreaks(_, _, _)
StreakScan_PushBreaks(sb, firstStatus, i) ==
    IF i > Len(sb) THEN 0
    ELSE IF sb[i].status = firstStatus
         THEN (IF firstStatus = WON THEN 1 ELSE -1)
              + StreakScan_PushBreaks(sb, firstStatus, i + 1)
         ELSE 0

\* the for-of loop over settledBets from position i on; firstStatus is WON or LOST
RECURSIVE StreakScan(_, _, _)
StreakScan(sb, firstStatus, i) ==
    IF i > Len(sb) THEN 0
    ELSE IF sb[i].status = firstStatus
         THEN (IF firstStatus = WON THEN 1 ELSE -1) + StreakScan(sb, firstStatus, i + 1)
         ELSE IF sb[i].status # PUSH
              THEN 0
              ELSE StreakScan(sb, firstStatus, i + 1)

CurrentStreak(sb) ==
    IF Len(sb) > 0
    THEN LET firstStatus == sb[1].status
         IN  IF firstStatus = WON \/ firstStatus = LOST
             THEN StreakScan(sb, firstStatus, 1)
             ELSE 0
    ELSE 0

\* bet.pick.split(' ').slice(0, 2).join(' ').replace(/[-+0-9.]/g, '').trim()
\* for the picks the model uses; a pick of digits, signs and at most one
\* letter ("O 145.5", "+150", "") leaves fewer than 3 characters, written ""
StrippedPick(pick) ==
    CASE pick \in {"Lakers -5.5", "Lakers +3"} -> "Lakers"
      [] pick = "Celtics ML" -> "Celtics ML"
      [] pick = "Over 145.5" -> "Over"
      [] pick = "Under 45.5" -> "Under"
      [] pick = "Alabama 1st Half" -> "Alabama st"
      [] pick = "First Touchdown" -> "First Touchdown"
      [] pick \in {"1st Half Touchdown", "1st Half U 45.5"} -> "st Half"
      [] pick = "Touchdown O 145.5" -> "Touchdown O"
      [] OTHER -> ""

\* const key = cleaned.length < 3 ? bet.pick : cleaned
KeyOfPick(pick, cleaned) == IF cleaned = "" THEN pick ELSE cleaned

\* key = bet[field] || 'Unknown' for field = 'sport' | 'sportsbook'; for
\* field = 'pick' the stripped pick, or the pick itself when fewer than 3
\* characters are left
FieldKey(bet, field) ==
    IF field = "pick" THEN KeyOfPick(bet.pick, StrippedPick(bet.pick))
    ELSE LET v == IF field = "sport" THEN bet.sport ELSE bet.sportsbook
         IN  IF v = "" THEN "Unknown" ELSE v

\* the keys of map in insertion order (Object.entries) after the first k bets
RECURSIVE AggKeys(_, _, _)
AggKeys(sb, field, k) ==
    IF k = 0 THEN << >>
    ELSE LET prev == AggKeys(sb, field, k - 1)
             key == FieldKey(sb[k], field)
         IN  IF key \in Range(prev) THEN prev ELSE Append(prev, key)

\* mutant: a lost wager is counted as a loss but not taken off the profit
RECURSIVE AggEntry_KeepsWager(_, _, _, _)
AggEntry_KeepsWager(sb, field, key, k) ==
    IF k = 0 THEN [profit |-> 0, wins |-> 0, losses |-> 0, pushes |-> 0]
    ELSE LET a == AggEntry_KeepsWager(sb, field, key, k - 1)
             bet == sb[k]
         IN  IF FieldKey(bet, field) # key THEN a
             ELSE IF bet.status = WON
             THEN [a EXCEPT !.profit = @ + bet.potentialProfit, !.wins = @ + 1]
             ELSE IF bet.status = LOST
             THEN [a EXCEPT !.losses = @ + 1]
             ELSE [a EXCEPT !.pushes = @ + 1]

\* map[key] after settledBets.forEach over the first k bets
RECURSIVE AggEntry(_, _, _, _)
AggEntry(sb, field, key, k) ==
    IF k = 0 THEN [profit |-> 0, wins |-> 0, losses |-> 0, pushes |-> 0]
    ELSE LET a == AggEntry(sb, field, key, k - 1)
             bet == sb[k]
         IN  IF FieldKey(bet, field) # key THEN a
             ELSE IF bet.status = WON
             THEN [a EXCEPT !.profit = @ + bet.potentialProfit, !.wins = @ + 1]
             ELSE IF bet.status = LOST
             THEN [a EXCEPT !.profit = @ - bet.wager, !.losses = @ + 1]
             ELSE [a EXCEPT !.pushes = @ + 1]

\* Object.entries(aggByField(field)): name and data, in insertion order
aggByField(sb, field) ==
    LET keys == AggKeys(sb, field, Len(sb))
    IN  [ i \in 1..Len(keys) |->
            [name |-> keys[i], data |-> AggEntry(sb, field, keys[i], Len(sb))] ]

\* .sort((a, b) => b.profit - a.profit), stable
RECURSIVE InsertByProfit(_, _)
InsertByProfit(s, x) ==
    IF s = << >> THEN << x >>
    ELSE IF Head(s).profit >= x.profit
         THEN << Head(s) >> \o InsertByProfit(Tail(s), x)
         ELSE << x >> \o s

RECURSIVE SortByProfit(_, _)
SortByProfit(s, k) ==
    IF k = 0 THEN << >> ELSE InsertByProfit(SortByProfit(s, k - 1), s[k])

\* .sort((a, b) => b.profit - a.profit) of a whole array
ByProfit(arr) == SortByProfit(arr, Len(arr))

\* .map(([name, data]) => ({ name, profit, record })); record is the string
\* `${wins}-${losses}-${pushes}`, kept as its three numbers
SportRows(m) ==
    [ i \in 1..Len(m) |->
        [name |-> m[i].name,
         profit |-> m[i].data.profit,
         record |-> << m[i].data.wins, m[i].data.losses, m[i].data.pushes >>] ]

\* mutant: the groups are left in insertion order
SportsArr_Unsorted(sb) == SportRows(aggByField(sb, "sport"))

\* Object.entries(sportsMap).map(...).sort((a, b) => b.profit - a.profit)
SportsArr(sb) == ByProfit(SportRows(aggByField(sb, "sport")))

\* .map(([name, data]) => ({ name, profit, wins, losses, winRate }))
BookRows(m) ==
    [ i \in 1..Len(m) |->
        [name |-> m[i].name,
         profit |-> m[i].data.profit,
         wins |-> m[i].data.wins,
         losses |-> m[i].data.losses,
         winRate |-> IF m[i].data.wins + m[i].data.losses > 0
                     THEN JsDiv(m[i].data.wins * 100,
                                m[i].data.wins + m[i].data.losses)
                     ELSE JsInt(0)] ]

BookPerformance(sb) == ByProfit(BookRows(aggByField(sb, "sportsbook")))

\* .map(([name, data]) => ({ name, profit, wins, losses }))
TeamRows(m) ==
    [ i \in 1..Len(m) |->
        [name |-> m[i].name,
         profit |-> m[i].data.profit,
         wins |-> m[i].data.wins,
         losses |-> m[i].data.losses] ]

\* .filter(t => t.wins + t.losses > 0)
ActiveTeams(arr) == SelectSeq(arr, LAMBDA t : t.wins + t.losses > 0)

\* .slice(0, 5)
TopFive(arr) == SubSeq(arr, 1, IF Len(arr) < 5 THEN Len(arr) ELSE 5)

\* mutant: the first five groups are taken before filtering and sorting
TeamPerformance_SlicesFirst(sb) ==
    ByProfit(ActiveTeams(TopFive(TeamRows(aggByField(sb, "pick")))))

\* .map(...).filter(t => t.wins + t.losses > 0).sort(...).slice(0, 5)
TeamPerformance(sb) ==
    TopFive(ByProfit(ActiveTeams(TeamRows(aggByField(sb, "pick")))))

\* sportsArr.length > 0 && sportsArr[0].profit > 0 ? sportsArr[0] : null;
\* << >> is null, << entry >> is the entry
HottestSport(sportsArr) ==
    IF Len(sportsArr) > 0 /\ sportsArr[1].profit > 0
    THEN << sportsArr[1] >> ELSE << >>

\* sportsArr.length > 0 && sportsArr[sportsArr.length - 1].profit < 0
\*     ? sportsArr[sportsArr.length - 1] : null
ColdestSport(sportsArr) ==
    IF Len(sportsArr) > 0 /\ sportsArr[Len(sportsArr)].profit < 0
    THEN << sportsArr[Len(sportsArr)] >> ELSE << >>

\* the object returned for the settled bets, newest first
AdvancedStatsOf(settledBets) ==
    [currentStreak |-> CurrentStreak(settledBets),
     last10 |-> Last10(settledBets),
     hottestSport |-> HottestSport(SportsArr(settledBets)),
     coldestSport |-> ColdestSport(SportsArr(settledBets)),
     bookPerformance |-> BookPerformance(settledBets),
     teamPerformance |-> TeamPerformance(settledBets)]

calculateAdvancedStats(bs) == AdvancedStatsOf(SettledBets(bs))

----------------------------------------------------------------------------
(* calculateBankrollHistory *)

\* [...bets].filter(b => b.status === WON || b.status === LOST || b.status === PUSH)
RECURSIVE FilterSettled(_, _)
FilterSettled(bs, k) ==
    IF k = 0 THEN << >>
    ELSE IF bs[k].status = WON \/ bs[k].status = LOST \/ bs[k].status = PUSH
         THEN Append(FilterSettled(bs, k - 1), bs[k])
         ELSE FilterSettled(bs, k - 1)

\* .sort((a, b) => a.date.localeCompare(b.date)), stable
RECURSIVE InsertByDate(_, _)
InsertByDate(s, x) ==
    IF s = << >> THEN << x >>
    ELSE IF Head(s).date <= x.date
         THEN << Head(s) >> \o InsertByDate(Tail(s), x)
         ELSE << x >> \o s

RECURSIVE SortByDate(_, _)
SortByDate(s, k) ==
    IF k = 0 THEN << >> ELSE InsertByDate(SortByDate(s, k - 1), s[k])

\* mutant: pending bets are not filtered out
SortedBets_Unfiltered(bs) == SortByDate(bs, Len(bs))

SortedBets(bs) ==
    LET f == FilterSettled(bs, Len(bs)) IN SortByDate(f, Len(f))

\* the arrays of a call: [...bets] copies the caller's array, .filter(...)
\* returns a new one, which .sort(...) then reorders in place
ArraysOfBankrollHistory(bs) ==
    LET spread == [bets |-> bs, sortedBets |-> bs]
        filtered == [spread EXCEPT !.sortedBets = FilterSettled(@, Len(@))]
    IN  [filtered EXCEPT !.sortedBets = SortByDate(@, Len(@))]

\* dailyPnL[date] after sortedBets.forEach over the first k bets
RECURSIVE DailyPnL(_, _, _)
DailyPnL(sb, date, k) ==
    IF k = 0 THEN 0
    ELSE DailyPnL(sb, date, k - 1)
         + (IF sb[k].date # date THEN 0
            ELSE IF sb[k].status = WON THEN sb[k].potentialProfit
            ELSE IF sb[k].status = LOST THEN 0 - sb[k].wager
            ELSE 0)

\* Object.keys(dailyPnL).sort()
RECURSIVE SortedDates(_)
SortedDates(S) ==
    IF S = {} THEN << >>
    ELSE LET m == CHOOSE x \in S : \A y \in S : x <= y
         IN  << m >> \o SortedDates(S \ {m})

\* mutant: one entry per bet, in the order of sortedBets
UniqueDates_PerBet(sb) == [ i \in 1..Len(sb) |-> sb[i].date ]

UniqueDates(sb) == SortedDates({ sb[i].date : i \in 1..Len(sb) })

\* currentBalance after uniqueDates.forEach over the first k dates
RECURSIVE RunningBalance(_, _, _, _)
RunningBalance(startingBalance, sb, dates, k) ==
    IF k = 0 THEN startingBalance
    ELSE RunningBalance(startingBalance, sb, dates, k - 1)
         + DailyPnL(sb, dates[k], Len(sb))

\* the date of a history point: the literal 'Start' or a bet's date string
StartLabel == [label |-> "Start", day |-> 0]

DateLabel(date) == [label |-> "date", day |-> date]

\* mutant: the Start point is pushed only by the empty-history fallback
calculateBankrollHistory_StartOnlyWhenEmpty(startingBalance, bs) ==
    LET sb == FilterSettled(bs, Len(bs))
        sortedBets == SortByDate(sb, Len(sb))
        uniqueDates == SortedDates({ sortedBets[i].date : i \in 1..Len(sortedBets) })
        start == [date |-> StartLabel, balance |-> startingBalance]
        history ==
            [ k \in 1..Len(uniqueDates) |->
                [date |-> DateLabel(uniqueDates[k]),
                 balance |-> RunningBalance(startingBalance, sortedBets, uniqueDates, k)] ]
    IN  IF Len(history) = 0 THEN << start >> ELSE history

\* formattedDate is display text derived from date alone and is left out
calculateBankrollHistory(startingBalance, bs) ==
    LET sortedBets == SortedBets(bs)
        uniqueDates == UniqueDates(sortedBets)
        start == [date |-> StartLabel, balance |-> startingBalance]
        history ==
            << start >> \o
            [ k \in 1..Len(uniqueDates) |->
                [date |-> DateLabel(uniqueDates[k]),
                 balance |-> RunningBalance(startingBalance, sortedBets, uniqueDates, k)] ]
    IN  IF Len(history) = 0 THEN << start >> ELSE history

----------------------------------------------------------------------------
(* Inputs of the pure computations: bounded bet collections and deposit    *)
(* lists.  potentialProfit is what the bet form and the edit row store,    *)
(* calculatePotentialProfit(wager, odds).  A sportsbook outside SPORTSBOOKS*)
(* and odds of 0 arrive through imported or stored records.  Deposit lists *)
(* name known sportsbooks, one entry each, as handleUpdateBookDeposit      *)
(* keeps them.                                                             *)

MkBet(id, date, sport, sportsbook, pick, odds, wager, status, createdAt) ==
    [id |-> id, date |-> date, matchup |-> "Lakers vs Celtics", sport |-> sport,
     sportsbook |-> sportsbook, pick |-> pick, odds |-> odds, wager |-> wager,
     potentialProfit |-> calculatePotentialProfit(wager, odds),
     status |-> status, createdAt |-> createdAt]

InputBooks == {"DraftKings", "FanDuel", "ESPN Bet"}

InputStakes ==
    { [wager |-> 1500, odds |-> -200],
      [wager |-> 2500, odds |-> 200],
      [wager |-> 2500, odds |-> 0] }

InputDates == {1, 2}

InputCreatedAt == {1, 2}

\* book, status and stake vary; the list is newest first
LedgerChoices == InputBooks \X BetStatus \X InputStakes

LedgerInput(n, c) ==
    [ i \in 1..n |->
        MkBet(i, 1, "NFL", c[i][1], "Lakers -5.5", c[i][3].odds, c[i][3].wager,
              c[i][2], n + 1 - i) ]

\* status and createdAt vary, so that list order and recency order differ
StreakChoices == BetStatus \X InputCreatedAt

StreakInput(n, c) ==
    [ i \in 1..n |->
        MkBet(i, 1, "NFL", "DraftKings", "Lakers -5.5", 200, 2500, c[i][1], c[i][2]) ]

\* status, date and wager vary
HistoryChoices == BetStatus \X InputDates \X {1500, 2500}

HistoryInput(n, c) ==
    [ i \in 1..n |->
        MkBet(i, c[i][2], "NFL", "DraftKings", "Lakers -5.5", 200, c[i][3],
              c[i][1], n + 1 - i) ]

DepositInputs ==
    { << >>,
      << [sportsbook |-> "DraftKings", deposited |-> 100000] >>,
      << [sportsbook |-> "FanDuel", deposited |-> 5000] >>,
      << [sportsbook |-> "DraftKings", deposited |-> 100000],
         [sportsbook |-> "FanDuel", deposited |-> 5000] >>,
      << [sportsbook |-> "FanDuel", deposited |-> 5000],
         [sportsbook |-> "DraftKings", deposited |-> 100000] >> }

----------------------------------------------------------------------------
(* The derivations of one render of App: the four useMemo blocks, in the   *)
(* order the component evaluates them.                                     *)

InitCalc ==
    /\ \/ \E n \in 0..MaxLedgerBets : \E c \in [1..n -> LedgerChoices] :
            /\ bets = LedgerInput(n, c)
            /\ bookDeposits \in DepositInputs
       \/ \E n \in 0..MaxStreakBets : \E c \in [1..n -> StreakChoices] :
            /\ bets = StreakInput(n, c)
            /\ bookDeposits = << >>
       \/ \E n \in 0..MaxHistoryBets : \E c \in [1..n -> HistoryChoices] :
            /\ bets = HistoryInput(n, c)
            /\ bookDeposits = << [sportsbook |-> "DraftKings", deposited |-> 100000] >>
    /\ bankrollStats = << >>
    /\ bookBalances = << >>
    /\ advancedStats = << >>
    /\ bankrollHistory = << >>
    /\ pc = "bankrollStats"
    /\ startingBankroll = << >>
    /\ editingId = 0
    /\ deleteConfirmId = 0
    /\ editForm = << >>
    /\ dmStatus = "idle"
    /\ dmMessage = Message("", 0)
    /\ requests = {}
    /\ nextId = 1
    /\ steps = 0

RenderBankrollStats ==
    /\ pc = "bankrollStats"
    /\ bankrollStats' = << calculateBankrollStats(bookDeposits, bets) >>
    /\ pc' = "bookBalances"
    /\ UNCHANGED <<bets, bookDeposits, bookBalances, advancedStats, bankrollHistory>>
    /\ UNCHANGED uiVars

RenderBookBalances ==
    /\ pc = "bookBalances"
    /\ bookBalances' = calculateBookBalances(bets, bookDeposits)
    /\ pc' = "advancedStats"
    /\ UNCHANGED <<bets, bookDeposits, bankrollStats, advancedStats, bankrollHistory>>
    /\ UNCHANGED uiVars

RenderAdvancedStats ==
    /\ pc = "advancedStats"
    /\ advancedStats' = << calculateAdvancedStats(bets) >>
    /\ bets' = ArraysOfAdvancedStats(bets).bets
    /\ pc' = "bankrollHistory"
    /\ UNCHANGED <<bookDeposits, bankrollStats, bookBalances, bankrollHistory>>
    /\ UNCHANGED uiVars

RenderBankrollHistory ==
    /\ pc = "bankrollHistory"
    /\ bankrollHistory' =
           calculateBankrollHistory(bankrollStats[1].startingBalance, bets)
    /\ bets' = ArraysOfBankrollHistory(bets).bets
    /\ pc' = "rendered"
    /\ UNCHANGED <<bookDeposits, bankrollStats, bookBalances, advancedStats>>
    /\ UNCHANGED uiVars

NextCalc ==
    \/ RenderBankrollStats
    \/ RenderBookBalances
    \/ RenderAdvancedStats
    \/ RenderBankrollHistory

SpecCalc == InitCalc /\ [][NextCalc]_vars

----------------------------------------------------------------------------
(* Properties of the derivations, checked under SpecCalc *)

\* the sum of f[i] over a finite set of indices
RECURSIVE SumOver(_, _)
SumOver(f, S) ==
    IF S = {} THEN 0
    ELSE LET i == CHOOSE x \in S : TRUE IN f[i] + SumOver(f, S \ {i})

StatsRendered == pc # "bankrollStats"

BooksRendered == pc \in {"advancedStats", "bankrollHistory", "rendered"}

AdvancedRendered == pc \in {"bankrollHistory", "rendered"}

HistoryRendered == pc = "rendered"

\* the settlement effect the ledger contract gives a bet
LedgerEffect(bet) ==
    CASE bet.status = WON -> bet.potentialProfit
      [] bet.status = LOST -> 0 - bet.wager
      [] bet.status = PENDING -> 0 - bet.wager
      [] bet.status = PUSH -> 0

\* the effect of a settled bet on the reconstructed history
SettledEffect(bet) ==
    CASE bet.status = WON -> bet.potentialProfit
      [] bet.status = LOST -> 0 - bet.wager
      [] OTHER -> 0

KnownBooks == Range(SPORTSBOOKS)

\* C1: BankrollState.currentBalance equals the sum of currentBalance over
\* the entries returned by calculateBookBalances for the same bets and deposits.
C1_LedgerMetricsConsistent ==
    BooksRendered =>
        bankrollStats[1].currentBalance =
            SumOver([i \in DOMAIN bookBalances |-> bookBalances[i].currentBalance],
                    DOMAIN bookBalances)

C1_Witness ==
    /\ BooksRendered
    /\ Len(bets) = 2
    /\ bets[1].sportsbook = "ESPN Bet" /\ bets[1].status = WON /\ bets[1].odds = 200
    /\ bets[2].sportsbook = "DraftKings" /\ bets[2].status = PENDING
    /\ Len(bookDeposits) = 2
    /\ bankrollStats[1].currentBalance = 105000 - bets[2].wager

\* C2: calculateBookBalances returns exactly one entry per known sportsbook,
\* also for books without bets or deposit; each entry's currentBalance is
\* deposited plus the sum of the settlement effects of that book's bets
\* (WON +potentialProfit, LOST -wager, PENDING -wager, PUSH 0), and deposited
\* is 0 for a book without a deposit entry.
C2_BookBalances ==
    BooksRendered =>
        /\ Len(bookBalances) = Cardinality(KnownBooks)
        /\ \A sb \in KnownBooks :
             Cardinality({ i \in DOMAIN bookBalances : bookBalances[i].sportsbook = sb }) = 1
        /\ \A i \in DOMAIN bookBalances :
             LET e == bookBalances[i]
                 mine == { k \in DOMAIN bets : bets[k].sportsbook = e.sportsbook }
                 dep == { j \in DOMAIN bookDeposits :
                            bookDeposits[j].sportsbook = e.sportsbook }
             IN  /\ e.sportsbook \in KnownBooks
                 /\ e.currentBalance =
                        e.deposited
                        + SumOver([k \in DOMAIN bets |-> LedgerEffect(bets[k])], mine)
                 /\ dep = {} => e.deposited = 0
                 /\ \A j \in dep : e.deposited = bookDeposits[j].deposited

C2_Witness ==
    /\ BooksRendered
    /\ Len(bets) = 2
    /\ bets[1].sportsbook = "FanDuel" /\ bets[1].status = PENDING
    /\ bets[2].sportsbook = "FanDuel" /\ bets[2].status = WON /\ bets[2].odds = -200
    /\ bookDeposits = << [sportsbook |-> "DraftKings", deposited |-> 100000] >>
    /\ \E i \in DOMAIN bookBalances :
         /\ bookBalances[i].sportsbook = "FanDuel"
         /\ bookBalances[i].deposited = 0
         /\ bookBalances[i].currentBalance = 750 - bets[1].wager
    /\ \E i \in DOMAIN bookBalances :
         /\ bookBalances[i].sportsbook = "Betr"
         /\ bookBalances[i].currentBalance = 0

C4_RatiosFinite ==
    AdvancedRendered =>
        LET st == bankrollStats[1]
            settled == { k \in DOMAIN bets : bets[k].status # PENDING }
            decided == { k \in DOMAIN bets : bets[k].status \in {WON, LOST} }
        IN  /\ IsFiniteNumber(st.roi)
            /\ IsFiniteNumber(st.flatROI)
            /\ settled = {} => st.roi = JsInt(0)
            /\ decided = {} => st.flatROI = JsInt(0)
            /\ \A i \in DOMAIN advancedStats[1].bookPerformance :
                 LET e == advancedStats[1].bookPerformance[i]
                 IN  /\ IsFiniteNumber(e.winRate)
                     /\ e.wins + e.losses = 0 => e.winRate = JsInt(0)

\* the settled bets in recency order: rank r holds the bet with r - 1 settled
\* bets ahead of it, a later createdAt first and list order among equals
RecencyRank(k) ==
    1 + Cardinality({ j \in DOMAIN bets :
                        /\ bets[j].status # PENDING
                        /\ \/ bets[j].createdAt > bets[k].createdAt
                           \/ bets[j].createdAt = bets[k].createdAt /\ j < k })

RecencyStatuses ==
    LET settled == { k \in DOMAIN bets : bets[k].status # PENDING }
    IN  [ r \in 1..Cardinality(settled) |->
            bets[CHOOSE k \in settled : RecencyRank(k) = r].status ]

\* the streak the contract defines on a most-recent-first status sequence
ExpectedStreak(st) ==
    IF Len(st) = 0 \/ st[1] = PUSH THEN 0
    ELSE LET leading == st[1]
             opposite == { r \in DOMAIN st : st[r] # leading /\ st[r] # PUSH }
             run == { r \in DOMAIN st :
                        st[r] = leading /\ \A o \in opposite : r < o }
         IN  IF leading = WON THEN Cardinality(run) ELSE 0 - Cardinality(run)

\* C7: currentStreak is 0 without settled bets or when the most recent settled
\* bet is PUSH; otherwise +k (leading WON) or -k (leading LOST), k counting
\* the bets of the leading outcome before the first bet of the opposite
\* outcome, PUSH bets being skipped without counting or ending the scan.
C7_CurrentStreak ==
    AdvancedRendered =>
        advancedStats[1].currentStreak = ExpectedStreak(RecencyStatuses)

C7_Witness ==
    /\ AdvancedRendered
    /\ RecencyStatuses = << WON, PUSH, WON, LOST >>
    /\ bets[1].createdAt < bets[4].createdAt
    /\ advancedStats[1].currentStreak = 2

\* C8: after the Start point the history has exactly one point per distinct
\* date with a settled bet and none for dates with only PENDING bets; a
\* point's balance is startingBalance plus the net effect of all settled bets
\* dated on or before it.
C8_HistoryPoints ==
    HistoryRendered =>
        LET settled == { k \in DOMAIN bets : bets[k].status \in {WON, LOST, PUSH} }
            dates == { bets[k].date : k \in settled }
            start == bankrollStats[1].startingBalance
        IN  /\ Len(bankrollHistory) = 1 + Cardinality(dates)
            /\ \A d \in dates :
                 Cardinality({ i \in 2..Len(bankrollHistory) :
                                 bankrollHistory[i].date = DateLabel(d) }) = 1
            /\ \A i \in 2..Len(bankrollHistory) :
                 /\ bankrollHistory[i].date.label = "date"
                 /\ bankrollHistory[i].date.day \in dates
                 /\ bankrollHistory[i].balance =
                        start + SumOver([k \in DOMAIN bets |-> SettledEffect(bets[k])],
                                        { k \in settled :
                                            bets[k].date <= bankrollHistory[i].date.day })

\* two WON bets of 50 and 30 dollars profit on one date, starting at 1000
\* dollars, and a PENDING bet on another date: one point, 1080 dollars
C8_Witness ==
    /\ HistoryRendered
    /\ Len(bets) = 3
    /\ bets[1].status = WON /\ bets[1].date = 2 /\ bets[1].potentialProfit = 5000
    /\ bets[2].status = PENDING /\ bets[2].date = 1
    /\ bets[3].status = WON /\ bets[3].date = 2 /\ bets[3].potentialProfit = 3000
    /\ bankrollHistory =
           << [date |-> StartLabel, balance |-> 100000],
              [date |-> DateLabel(2), balance |-> 108000] >>

\* C9: the first element of the history is the point with date 'Start' and
\* balance startingBalance, and that point occurs exactly once.
C9_StartPoint ==
    HistoryRendered =>
        /\ Len(bankrollHistory) >= 1
        /\ bankrollHistory[1] =
               [date |-> StartLabel, balance |-> bankrollStats[1].startingBalance]
        /\ Cardinality({ i \in DOMAIN bankrollHistory :
                           bankrollHistory[i].date = StartLabel }) = 1

C9_Witness ==
    /\ HistoryRendered
    /\ Len(bets) = 2
    /\ bets[1].status = LOST /\ bets[2].status = PENDING
    /\ Len(bankrollHistory) = 2
    /\ bankrollHistory[1].date = StartLabel
    /\ bankrollHistory[1].balance = 100000

----------------------------------------------------------------------------
(* calculateBankrollStats of the single-bankroll revision (App.tsx)        *)

\* currentBalance after bets.forEach over the first k bets
RECURSIVE BalanceFold(_, _, _)
BalanceFold(startingBalance, bs, k) ==
    IF k = 0 THEN startingBalance
    ELSE LET bet == bs[k]
             balance == BalanceFold(startingBalance, bs, k - 1)
         IN  IF bet.status # PENDING
             THEN IF bet.status = WON THEN balance + bet.potentialProfit
                  ELSE IF bet.status = LOST THEN balance - bet.wager
                  ELSE balance
             ELSE balance - bet.wager

calculateBankrollStatsSingle(startingBalance, bs) ==
    LET a == StatsFold(bs, Len(bs))
        settledWagered == SettledWagered(bs, Len(bs))
        netProfit == a.totalWon - a.totalLost
    IN  [startingBalance |-> startingBalance,
         currentBalance |-> BalanceFold(startingBalance, bs, Len(bs)),
         totalWagered |-> a.totalWagered,
         totalWon |-> a.totalWon,
         totalLost |-> a.totalLost,
         totalBets |-> Len(bs),
         wins |-> a.wins,
         losses |-> a.losses,
         pushes |-> a.pushes,
         roi |-> IF settledWagered > 0
                 THEN JsDiv(netProfit * 100, settledWagered)
                 ELSE JsInt(0),
         flatROI |-> IF a.flatBetsSettled > 0
                     THEN JsScale(JsOver(a.flatUnitsWon, a.flatBetsSettled), 100)
                     ELSE JsInt(0)]

----------------------------------------------------------------------------
(* inferSportFromBet                                                       *)
(*                                                                         *)
(* A text is kept as what the classifier can see of it: the set of the     *)
(* phrases it tests for that occur in the upper-cased text, and the first  *)
(* match of /[OU]\s?(\d{2,3})/.  Scan gives this for the strings the model *)
(* uses; the gazetteers hold a sample of each list of the source.          *)

Team(name, upper, nickname, nicknameLength) ==
    [name |-> name, upper |-> upper, nickname |-> nickname,
     nicknameLength |-> nicknameLength]

NFL_TEAMS ==
    << Team("Carolina Panthers", "CAROLINA PANTHERS", "PANTHERS", 8),
       Team("Dallas Cowboys", "DALLAS COWBOYS", "COWBOYS", 7),
       Team("New York Giants", "NEW YORK GIANTS", "GIANTS", 6) >>

NBA_TEAMS ==
    << Team("Boston Celtics", "BOSTON CELTICS", "CELTICS", 7),
       Team("Los Angeles Lakers", "LOS ANGELES LAKERS", "LAKERS", 6),
       Team("New York Knicks", "NEW YORK KNICKS", "KNICKS", 6),
       Team("Sacramento Kings", "SACRAMENTO KINGS", "KINGS", 5) >>

MLB_TEAMS ==
    << Team("Boston Red Sox", "BOSTON RED SOX", "SOX", 3),
       Team("San Francisco Giants", "SAN FRANCISCO GIANTS", "GIANTS", 6),
       Team("Texas Rangers", "TEXAS RANGERS", "RANGERS", 7) >>

NHL_TEAMS ==
    << Team("Florida Panthers", "FLORIDA PANTHERS", "PANTHERS", 8),
       Team("Los Angeles Kings", "LOS ANGELES KINGS", "KINGS", 5),
       Team("New York Rangers", "NEW YORK RANGERS", "RANGERS", 7) >>

NCAAF_TEAMS ==
    << Team("UAB", "UAB", "UAB", 3),
       Team("Alabama", "ALABAMA", "ALABAMA", 7),
       Team("Ohio State", "OHIO STATE", "STATE", 5) >>

NCAAB_TEAMS ==
    << Team("UAB", "UAB", "UAB", 3),
       Team("Alabama", "ALABAMA", "ALABAMA", 7),
       Team("Ohio State", "OHIO STATE", "STATE", 5),
       Team("Gonzaga", "GONZAGA", "GONZAGA", 7),
       Team("Wichita State", "WICHITA STATE", "STATE", 5) >>

NoText == [phrases |-> {}, total |-> << >>]

Scan(s) ==
    CASE s = "Lakers vs Celtics" ->
             [phrases |-> {"LAKERS", "CELTICS"}, total |-> << >>]
      [] s = "Lakers -5.5" ->
             [phrases |-> {"LAKERS"}, total |-> << >>]
      [] s = "Alabama vs Auburn" ->
             [phrases |-> {"ALABAMA"}, total |-> << >>]
      [] s = "Alabama vs Ohio State" ->
             [phrases |-> {"ALABAMA", "OHIO STATE", "STATE"}, total |-> << >>]
      [] s = "Texas vs Alabama" ->
             [phrases |-> {"TEXAS", "ALABAMA"}, total |-> << >>]
      [] s = "New York Knicks vs Celtics" ->
             [phrases |-> {"NEW YORK", "NEW YORK KNICKS", "KNICKS", "CELTICS"},
              total |-> << >>]
      [] s = "Company Cup Final" ->
             [phrases |-> {"NY"}, total |-> << >>]
      [] s = "Djokovic vs Alcaraz" ->
             [phrases |-> {"DJOKOVIC", "ALCARAZ"}, total |-> << >>]
      [] s = "Gonzaga vs UAB" ->
             [phrases |-> {"GONZAGA", "UAB"}, total |-> << >>]
      [] s = "Rangers vs Kings" ->
             [phrases |-> {"RANGERS", "KINGS"}, total |-> << >>]
      [] s = "Texas Rangers vs Kings" ->
             [phrases |-> {"TEXAS", "TEXAS RANGERS", "RANGERS", "KINGS"},
              total |-> << >>]
      [] s = "Alabama 1st Half" ->
             [phrases |-> {"ALABAMA", "HALF"}, total |-> << >>]
      [] s = "Over 145.5" ->
             [phrases |-> {}, total |-> << >>]
      [] s = "O 145.5" ->
             [phrases |-> {}, total |-> << 145 >>]
      [] s = "U 45.5" ->
             [phrases |-> {}, total |-> << 45 >>]
      [] s = "Under 45.5" ->
             [phrases |-> {}, total |-> << >>]
      [] s = "O 95.5" ->
             [phrases |-> {}, total |-> << 95 >>]
      [] s = "U 80" ->
             [phrases |-> {}, total |-> << 80 >>]
      [] s = "O 110" ->
             [phrases |-> {}, total |-> << 110 >>]
      [] s = "U 79.5" ->
             [phrases |-> {}, total |-> << 79 >>]
      [] s = "O 111.5" ->
             [phrases |-> {}, total |-> << 111 >>]
      [] s = "First Touchdown" ->
             [phrases |-> {"TOUCHDOWN"}, total |-> << >>]
      [] s = "1st Half Touchdown" ->
             [phrases |-> {"HALF", "TOUCHDOWN"}, total |-> << >>]
      [] s = "1st Half U 45.5" ->
             [phrases |-> {"HALF"}, total |-> << 45 >>]
      [] s = "Touchdown O 145.5" ->
             [phrases |-> {"TOUCHDOWN"}, total |-> << 145 >>]
      [] OTHER -> NoText

\* `${bet.matchup || ''} ${bet.pick || ''}`.toUpperCase()
TextOf(bet) ==
    LET m == Scan(bet.matchup)
        p == Scan(bet.pick)
    IN  [phrases |-> m.phrases \cup p.phrases,
         total |-> IF m.total # << >> THEN m.total ELSE p.total]

\* text.includes(phrase)
Includes(text, phrase) == phrase \in text.phrases

\* one turn of the loop of checkProList
ProMatch(text, team) ==
    \/ Includes(text, team.upper)
    \/ CASE team.nickname = "GIANTS" ->
                Includes(text, "NY") \/ Includes(text, "NEW YORK")
         [] team.nickname = "JETS" ->
                Includes(text, "NY") \/ Includes(text, "NEW YORK")
         [] team.nickname = "RANGERS" -> Includes(text, "TEXAS")
         [] team.nickname = "KINGS" -> Includes(text, "SACRAMENTO")
         [] team.nickname = "CARDINALS" -> Includes(text, "ARIZONA")
         [] team.nickname = "PANTHERS" -> Includes(text, "CAROLINA")
         [] OTHER -> Includes(text, team.nickname)

checkProList(text, teams) ==
    \E i \in 1..Len(teams) : ProMatch(text, teams[i])

\* the names getMatchedTeams pushes, in list order
getMatchedTeams(text, teams) ==
    SelectSeq(teams,
              LAMBDA team :
                  \/ Includes(text, team.upper)
                  \/ /\ team.nicknameLength > 3
                     /\ Includes(text, team.nickname))

TeamNames(teams) == { teams[i].name : i \in 1..Len(teams) }

\* parseInt(bet.date.split('-')[1]): day 1 is a date of January, day 2 a
\* date of September, and the days 3 to 14 are dates of January to December
\* of the next year
MonthOf(date) == IF date = 1 THEN 1 ELSE IF date = 2 THEN 9 ELSE date - 2

\* if (bet.date): a record without a date, or with an empty one, has date 0
HasDate(bet) == bet.date # 0

CollegeSport(text, bet) ==
    LET matchedNCAAF == getMatchedTeams(text, NCAAF_TEAMS)
        matchedNCAAB == getMatchedTeams(text, NCAAB_TEAMS)
        exclusiveCBB ==
            SelectSeq(matchedNCAAB, LAMBDA t : t.name \notin TeamNames(NCAAF_TEAMS))
        exclusiveCFB ==
            SelectSeq(matchedNCAAF, LAMBDA t : t.name \notin TeamNames(NCAAB_TEAMS))
        month == MonthOf(bet.date)
    IN  IF Len(exclusiveCBB) > 0 THEN "NCAAB"
        ELSE IF Len(exclusiveCFB) > 0 THEN "NCAAF"
        ELSE IF \/ Includes(text, "CFB") \/ Includes(text, "BOWL")
                \/ Includes(text, "TOUCHDOWN") THEN "NCAAF"
        ELSE IF \/ Includes(text, "CBB") \/ Includes(text, "MARCH MADNESS")
                \/ Includes(text, "TOURNAMENT") \/ Includes(text, "HALF")
             THEN "NCAAB"
        ELSE IF text.total # << >> /\ text.total[1] > 110 THEN "NCAAB"
        ELSE IF text.total # << >> /\ text.total[1] < 80 THEN "NCAAF"
        ELSE IF HasDate(bet) /\ month \in {8, 9, 10} THEN "NCAAF"
        ELSE IF HasDate(bet) /\ month \in {2, 3, 4} THEN "NCAAB"
        ELSE IF HasDate(bet) /\ month = 1 THEN "NCAAB"
        ELSE "NCAAB"

GenericSport(text) ==
    IF Includes(text, "UFC") \/ Includes(text, "MMA") THEN "UFC"
    ELSE IF \/ Includes(text, "TENNIS") \/ Includes(text, "ATP")
            \/ Includes(text, "WTA") \/ Includes(text, "DJOKOVIC")
            \/ Includes(text, "ALCARAZ") \/ Includes(text, "SINNER") THEN "Tennis"
    ELSE IF \/ Includes(text, "GOLF") \/ Includes(text, "PGA")
            \/ Includes(text, "LIV") THEN "Golf"
    ELSE IF \/ Includes(text, "SOCCER") \/ Includes(text, "EPL")
            \/ Includes(text, "MLS") \/ Includes(text, "PREMIER LEAGUE")
            \/ Includes(text, "CHAMPIONS LEAGUE") THEN "Soccer"
    ELSE IF \/ Includes(text, "F1") \/ Includes(text, "FORMULA 1")
            \/ Includes(text, "VERSTAPPEN") THEN "F1"
    ELSE "Other"

\* utils/calculations.ts, the classifier of the local revision
inferSportFromBet(bet) ==
    LET text == TextOf(bet)
        hasMLB == checkProList(text, MLB_TEAMS)
        hasNHL == checkProList(text, NHL_TEAMS)
        hasNCAAF == Len(getMatchedTeams(text, NCAAF_TEAMS)) > 0
        hasNCAAB == Len(getMatchedTeams(text, NCAAB_TEAMS)) > 0
    IN  IF checkProList(text, NFL_TEAMS) THEN "NFL"
        ELSE IF checkProList(text, NBA_TEAMS) THEN "NBA"
        ELSE IF hasMLB /\ hasNHL /\ Includes(text, "GIANTS") THEN "MLB"
        ELSE IF hasMLB /\ hasNHL /\ Includes(text, "RANGERS")
             THEN IF Includes(text, "TEXAS") THEN "MLB" ELSE "NHL"
        ELSE IF hasMLB /\ hasNHL /\ Includes(text, "KINGS") THEN "NHL"
        ELSE IF hasMLB /\ hasNHL /\ Includes(text, "PANTHERS") THEN "NHL"
        ELSE IF hasMLB THEN "MLB"
        ELSE IF hasNHL THEN "NHL"
        ELSE IF hasNCAAF \/ hasNCAAB THEN CollegeSport(text, bet)
        ELSE GenericSport(text)

\* part_006, the classifier of the cloud revision: full team names only
inferSportFromBetCloud(bet) ==
    LET text == TextOf(bet)
        some(teams) == \E i \in 1..Len(teams) : Includes(text, teams[i].upper)
    IN  IF some(NFL_TEAMS) THEN "NFL"
        ELSE IF some(NBA_TEAMS) THEN "NBA"
        ELSE IF some(MLB_TEAMS) THEN "MLB"
        ELSE IF some(NHL_TEAMS) THEN "NHL"
        ELSE "Other"

----------------------------------------------------------------------------
(* The running app.  The components are those of both revisions; `app`     *)
(* names the App they are mounted in: "cloud" is part_005 (Supabase, book  *)
(* deposits), "local" is App.tsx (localStorage, one starting bankroll).    *)

\* what the bet form holds at submit; a wager of 0 stands for the empty field
FormInputs ==
    { [date |-> 1, sportsbook |-> "DraftKings", odds |-> -200, wager |-> 1500],
      [date |-> 1, sportsbook |-> "DraftKings", odds |-> -200, wager |-> 0] }

\* what the edit row's inputs are changed to
EditInputs ==
    { <<"wager", 0>>, <<"wager", 3000>>, <<"odds", 0>>, <<"odds", 150>> }

\* what the bankroll modal submits
Ids(bs) == { bs[i].id : i \in 1..Len(bs) }

\* bets.find(b => b.id === id)
Row(bs, id) == bs[CHOOSE i \in 1..Len(bs) : bs[i].id = id]

\* startingBankroll || 0, in cents
OrZero(x) == IF x = << >> \/ ~IsFiniteNumber(x[1]) THEN 0 ELSE x[1].n

\* one more handler call of the run
Tick ==
    /\ steps < MaxSteps
    /\ steps' = steps + 1

\* the four useMemo blocks, evaluated on the state the handler leaves
Render(app) ==
    /\ bankrollStats' =
           IF app = "cloud"
           THEN << calculateBankrollStats(bookDeposits', bets') >>
           ELSE << calculateBankrollStatsSingle(OrZero(startingBankroll'), bets') >>
    /\ bookBalances' =
           IF app = "cloud" THEN calculateBookBalances(bets', bookDeposits')
           ELSE << >>
    /\ advancedStats' = << calculateAdvancedStats(bets') >>
    /\ bankrollHistory' =
           IF app = "cloud"
           THEN calculateBankrollHistory(
                    calculateBankrollStats(bookDeposits', bets').startingBalance, bets')
           ELSE calculateBankrollHistory(OrZero(startingBankroll'), bets')
    /\ pc' = "rendered"

----------------------------------------------------------------------------
(* App handlers *)

Request(op, id, previousBets) ==
    [op |-> op, id |-> id, previousBets |-> previousBets]

\* setBets(prev => [newBet, ...prev]); the cloud revision then awaits the insert
handleAddBet(app, betData) ==
    LET newBet ==
            [id |-> nextId, date |-> betData.date, matchup |-> betData.matchup,
             sport |-> betData.sport, sportsbook |-> betData.sportsbook,
             pick |-> betData.pick, odds |-> betData.odds, wager |-> betData.wager,
             potentialProfit |-> betData.potentialProfit,
             status |-> betData.status, createdAt |-> nextId]
    IN  /\ bets' = << newBet >> \o bets
        /\ nextId' = nextId + 1
        /\ requests' = IF app = "cloud"
                       THEN requests \cup {Request("insert", newBet.id, << >>)}
                       ELSE requests

\* prev.map(bet => bet.id !== id ? bet : { ...bet, status })
WithStatusOf(prev, id, status) ==
    [ i \in 1..Len(prev) |->
        IF prev[i].id # id THEN prev[i]
        ELSE [prev[i] EXCEPT !.status = status] ]

\* setBets(prev => prev.map(bet => bet.id !== id ? bet : { ...bet, status }))
handleUpdateStatus(id, status) ==
    bets' = WithStatusOf(bets, id, status)

\* prev.map(b => b.id === updatedBet.id ? updatedBet : b)
WithEdited(prev, updatedBet) ==
    [ i \in 1..Len(prev) |->
        IF prev[i].id = updatedBet.id THEN updatedBet ELSE prev[i] ]

\* setBets(prev => prev.map(b => b.id === updatedBet.id ? updatedBet : b))
handleEditBet(updatedBet) ==
    bets' = WithEdited(bets, updatedBet)

\* prev.filter(b => b.id !== id)
WithoutId(bs, id) == SelectSeq(bs, LAMBDA b : b.id # id)

\* the cloud revision keeps previousBets = [...bets] for its rollback
handleDeleteBet(app, id) ==
    /\ bets' = WithoutId(bets, id)
    /\ requests' = IF app = "cloud"
                   THEN requests \cup {Request("delete", id, bets)}
                   ELSE requests

\* mutant: only a missing or empty sport is inferred
ProcessBet_KeepsOther(app, b) ==
    [b EXCEPT !.sport = IF b.sport # "" THEN b.sport
                        ELSE IF app = "cloud" THEN inferSportFromBetCloud(b)
                        ELSE inferSportFromBet(b),
              !.sportsbook = IF b.sportsbook = "ESPN Bet" THEN "theScore Bet"
                             ELSE b.sportsbook]

\* the map of handleImportData over data.bets
ProcessBet(app, b) ==
    [b EXCEPT !.sport = IF b.sport # "" /\ b.sport # "Other" THEN b.sport
                        ELSE IF app = "cloud" THEN inferSportFromBetCloud(b)
                        ELSE inferSportFromBet(b),
              !.sportsbook = IF b.sportsbook = "ESPN Bet" THEN "theScore Bet"
                             ELSE b.sportsbook]

ProcessedBets(app, bs) == [ i \in 1..Len(bs) |-> ProcessBet(app, bs[i]) ]

\* part_005: the imported bets are put before the held ones, the bankroll of
\* the file is ignored
handleImportDataCloud(data, confirmed) ==
    /\ bets' = IF Len(bets) = 0 \/ confirmed
               THEN ProcessedBets("cloud", data.bets) \o bets
               ELSE bets
    /\ UNCHANGED startingBankroll

\* App.tsx: the imported bets replace the held ones
handleImportData(data, confirmed) ==
    IF Len(bets) = 0 \/ confirmed
    THEN /\ bets' = ProcessedBets("local", data.bets)
         /\ startingBankroll' = IF data.startingBankroll # << >>
                                THEN data.startingBankroll
                                ELSE startingBankroll
    ELSE UNCHANGED <<bets, startingBankroll>>

\* App.tsx: setStartingBankroll(amount)
handleSetBankroll(amount) ==
    /\ startingBankroll' = << JsInt(amount) >>
    /\ UNCHANGED <<bets, bookDeposits, editingId, deleteConfirmId, editForm,
                   dmStatus, dmMessage, requests, nextId>>
    /\ Tick
    /\ Render("local")

\* mutant: the new entry is appended whether or not the book has one
handleUpdateBookDeposit_AlwaysAppends(sportsbook, amount) ==
    bookDeposits' =
        Append(bookDeposits, [sportsbook |-> sportsbook, deposited |-> amount])

\* part_005: the entry of the book is replaced, or appended when there is none
handleUpdateBookDeposit(sportsbook, amount) ==
    bookDeposits' =
        IF \E i \in 1..Len(bookDeposits) : bookDeposits[i].sportsbook = sportsbook
        THEN [ i \in 1..Len(bookDeposits) |->
                 IF bookDeposits[i].sportsbook = sportsbook
                 THEN [bookDeposits[i] EXCEPT !.deposited = amount]
                 ELSE bookDeposits[i] ]
        ELSE Append(bookDeposits, [sportsbook |-> sportsbook, deposited |-> amount])

\* the insert of handleAddBet answers; on an error the bet is filtered out
InsertResponse ==
    \E r \in requests : \E error \in BOOLEAN :
        /\ r.op = "insert"
        /\ requests' = requests \ {r}
        /\ bets' = IF error THEN WithoutId(bets, r.id) ELSE bets
        /\ UNCHANGED <<bookDeposits, startingBankroll, editingId, deleteConfirmId,
                       editForm, dmStatus, dmMessage, nextId>>
        /\ Tick
        /\ Render("cloud")

\* the delete of handleDeleteBet answers; on an error setBets(previousBets)
DeleteResponse ==
    \E r \in requests : \E error \in BOOLEAN :
        /\ r.op = "delete"
        /\ requests' = requests \ {r}
        /\ bets' = IF error THEN r.previousBets ELSE bets
        /\ UNCHANGED <<bookDeposits, startingBankroll, editingId, deleteConfirmId,
                       editForm, dmStatus, dmMessage, nextId>>
        /\ Tick
        /\ Render("cloud")

----------------------------------------------------------------------------
(* BetForm *)

\* the useEffect on [wager, odds]
calculatedPayout(wager, odds) ==
    IF wager # 0 /\ odds # 0 THEN calculatePotentialProfit(wager, odds) ELSE 0

\* handleSubmit returns at once on an empty wager or odds; matchup and pick
\* are filled in
BetForm_handleSubmit(app, form) ==
    /\ form.wager # 0 /\ form.odds # 0
    /\ Len(bets) < MaxAppBets
    /\ nextId <= MaxAdded
    /\ app = "cloud" => Cardinality(requests) < MaxRequests
    /\ handleAddBet(app,
                    [date |-> form.date, matchup |-> "Lakers vs Celtics",
                     sport |-> "NBA", sportsbook |-> form.sportsbook,
                     pick |-> "Lakers -5.5", odds |-> form.odds,
                     wager |-> form.wager,
                     potentialProfit |-> calculatedPayout(form.wager, form.odds),
                     status |-> PENDING])
    /\ UNCHANGED <<bookDeposits, startingBankroll, editingId, deleteConfirmId,
                   editForm, dmStatus, dmMessage>>
    /\ Tick
    /\ Render(app)

----------------------------------------------------------------------------
(* BetList *)

\* the status buttons of a row: Won, Lost and Push on a pending bet, Undo on
\* a settled one; a row in edit mode shows none
StatusOffered(bet, status) ==
    /\ editingId # bet.id
    /\ IF bet.status = PENDING THEN status \in {WON, LOST, PUSH}
       ELSE status = PENDING

StatusButton(app, id, status) ==
    /\ \E i \in 1..Len(bets) : bets[i].id = id /\ StatusOffered(bets[i], status)
    /\ handleUpdateStatus(id, status)
    /\ UNCHANGED <<bookDeposits, startingBankroll, editingId, deleteConfirmId,
                   editForm, dmStatus, dmMessage, requests, nextId>>
    /\ Tick
    /\ Render(app)

handleStartEdit(app, id) ==
    /\ id \in Ids(bets)
    /\ editingId # id /\ deleteConfirmId # id
    /\ deleteConfirmId' = 0
    /\ editingId' = id
    /\ editForm' = << Row(bets, id) >>
    /\ UNCHANGED <<bets, bookDeposits, startingBankroll, dmStatus, dmMessage,
                   requests, nextId>>
    /\ Tick
    /\ Render(app)

\* the edit row is on screen
EditRowShown == editingId # 0 /\ editingId \in Ids(bets)

handleCancelEdit(app) ==
    /\ EditRowShown
    /\ editingId' = 0
    /\ editForm' = << >>
    /\ UNCHANGED <<bets, bookDeposits, startingBankroll, deleteConfirmId, dmStatus, dmMessage,
                   requests, nextId>>
    /\ Tick
    /\ Render(app)

handleInputChange(app, field, value) ==
    /\ EditRowShown
    /\ editForm[1][field] # value
    /\ editForm' = << [editForm[1] EXCEPT ![field] = value] >>
    /\ UNCHANGED <<bets, bookDeposits, startingBankroll, editingId,
                   deleteConfirmId, dmStatus, dmMessage, requests, nextId>>
    /\ Tick
    /\ Render(app)

\* mutant: the edited bet keeps the profit of the snapshot
handleSaveEdit_KeepsProfit(app) ==
    /\ EditRowShown
    /\ editForm[1].wager # 0 /\ editForm[1].odds # 0
    /\ handleEditBet(editForm[1])
    /\ editingId' = 0
    /\ editForm' = << >>
    /\ UNCHANGED <<bookDeposits, startingBankroll, deleteConfirmId, dmStatus,
                   dmMessage, requests, nextId>>
    /\ Tick
    /\ Render(app)

\* nothing happens on an empty wager or odds
handleSaveEdit(app) ==
    /\ EditRowShown
    /\ editForm[1].wager # 0 /\ editForm[1].odds # 0
    /\ handleEditBet([editForm[1] EXCEPT
                         !.potentialProfit =
                             calculatePotentialProfit(editForm[1].wager,
                                                      editForm[1].odds)])
    /\ editingId' = 0
    /\ editForm' = << >>
    /\ UNCHANGED <<bookDeposits, startingBankroll, deleteConfirmId, dmStatus, dmMessage,
                   requests, nextId>>
    /\ Tick
    /\ Render(app)

\* the trash button of a row that is neither being edited nor asking to confirm
DeleteButton(app, id) ==
    /\ id \in Ids(bets)
    /\ editingId # id /\ deleteConfirmId # id
    /\ editingId' = 0
    /\ deleteConfirmId' = id
    /\ UNCHANGED <<bets, bookDeposits, startingBankroll, editForm, dmStatus, dmMessage,
                   requests, nextId>>
    /\ Tick
    /\ Render(app)

CancelDelete(app) ==
    /\ deleteConfirmId # 0 /\ deleteConfirmId \in Ids(bets)
    /\ deleteConfirmId # editingId
    /\ deleteConfirmId' = 0
    /\ UNCHANGED <<bets, bookDeposits, startingBankroll, editingId, editForm,
                   dmStatus, dmMessage, requests, nextId>>
    /\ Tick
    /\ Render(app)

ConfirmDelete(app) ==
    /\ deleteConfirmId # 0 /\ deleteConfirmId \in Ids(bets)
    /\ deleteConfirmId # editingId
    /\ app = "cloud" => Cardinality(requests) < MaxRequests
    /\ handleDeleteBet(app, deleteConfirmId)
    /\ deleteConfirmId' = 0
    /\ UNCHANGED <<bookDeposits, startingBankroll, editingId, editForm, dmStatus, dmMessage,
                   nextId>>
    /\ Tick
    /\ Render(app)

----------------------------------------------------------------------------
(* BankrollModal of the cloud revision *)

BookBalance(sportsbook) ==
    bookBalances[CHOOSE i \in 1..Len(bookBalances) :
                     bookBalances[i].sportsbook = sportsbook]

BankrollModal_handleSubmit(editingBook, mode, val) ==
    LET currentBook == BookBalance(editingBook)
        pnl == currentBook.currentBalance - currentBook.deposited
        newDeposit ==
            IF mode = "deposit" THEN currentBook.deposited + val
            ELSE IF mode = "withdraw"
            THEN IF currentBook.deposited - val < 0 THEN 0
                 ELSE currentBook.deposited - val
            ELSE val - pnl
    IN  /\ val >= 0
        /\ Abs(newDeposit) <= MaxDeposit
        /\ handleUpdateBookDeposit(editingBook, newDeposit)
        /\ UNCHANGED <<bets, startingBankroll, editingId, deleteConfirmId,
                       editForm, dmStatus, dmMessage, requests, nextId>>
        /\ Tick
        /\ Render("cloud")

----------------------------------------------------------------------------
(* DataManagementModal *)
(*                                                                         *)
(* A file is kept as what JSON.parse makes of it: "invalid" when it throws,*)
(* "scalar" for a number, a string, a boolean or null, "array" with its    *)
(* items, "object" with its bets key (<< >> when it is no array) and its   *)
(* startingBankroll key.                                                   *)

JsonValue(t, v, s) == [t |-> t, v |-> v, s |-> s]

JsonAbsent == JsonValue("absent", 0, "")

JsonNull == JsonValue("null", 0, "")

JsonNumber(v) == JsonValue("number", v, "")

JsonString(s) == JsonValue("string", 0, s)

File(kind, items, betsKey, bankrollKey) ==
    [kind |-> kind, items |-> items, bets |-> betsKey,
     startingBankroll |-> bankrollKey]

\* JSON.stringify writes a finite number as it is, and null, NaN and the
\* infinities as null
StringifyNumber(x) ==
    IF x # << >> /\ IsFiniteNumber(x[1]) THEN JsonNumber(x[1].n) ELSE JsonNull

\* JSON.stringify(currentData, null, 2), read back by JSON.parse
Stringify(data) ==
    File("object", << >>, << data.bets >>, StringifyNumber(data.startingBankroll))

\* the currentData prop
currentData(app) ==
    [bets |-> bets,
     startingBankroll |->
         IF app = "cloud" THEN << JsInt(bankrollStats[1].startingBalance) >>
         ELSE startingBankroll]

\* Number(text) of the strings the files hold
NumberOfString(s) ==
    CASE s = "500" -> JsInt(50000)
      [] s = "" -> JsInt(0)
      [] OTHER -> JsDiv(0, 0)

betsToImport(file) ==
    IF file.kind = "array" THEN file.items
    ELSE IF file.kind = "object" /\ file.bets # << >> THEN file.bets[1]
    ELSE << >>

\* << >> for undefined
bankrollToImport(file) ==
    IF file.kind = "object" /\ file.startingBankroll.t = "number"
    THEN << JsInt(file.startingBankroll.v) >>
    ELSE IF file.kind = "object" /\ file.startingBankroll.t = "string"
    THEN << NumberOfString(file.startingBankroll.s) >>
    ELSE << >>

\* a bet of another log
FileBet ==
    [MkBet(9, 1, "Other", "ESPN Bet", "Lakers -5.5", 200, 2500, WON, 9)
         EXCEPT !.matchup = "Lakers vs Celtics"]

FileInputs ==
    { File("invalid", << >>, << >>, JsonAbsent),
      File("scalar", << >>, << >>, JsonAbsent),
      File("array", << >>, << >>, JsonAbsent),
      File("array", << FileBet >>, << >>, JsonAbsent),
      File("object", << >>, << >>, JsonAbsent),
      File("object", << >>, << >>, JsonNumber(50000)),
      File("object", << >>, << << FileBet >> >>, JsonString("abc")),
      File("object", << >>, << << FileBet >> >>, JsonString("500")) }

\* the bet the form adds first, as handleAddBet stores it
FirstBet ==
    [MkBet(1, 1, "NBA", "DraftKings", "Lakers -5.5", -200, 1500, PENDING, 1)
         EXCEPT !.matchup = "Lakers vs Celtics"]

\* a backup downloaded right after the first bet was added
EarlierBackup == Stringify([bets |-> << FirstBet >>, startingBankroll |-> << >>])

\* the files the user can pick: the inputs, the backup handleDownload writes
\* in this state and, once the first bet exists, the earlier backup
Files(app) ==
    FileInputs \cup {Stringify(currentData(app))}
        \cup (IF nextId > 1 THEN {EarlierBackup} ELSE {})

handleDownload(app) ==
    /\ dmStatus' = "success"
    /\ dmMessage' = Message("Backup downloaded successfully!", 0)
    /\ UNCHANGED <<bets, bookDeposits, startingBankroll, editingId,
                   deleteConfirmId, editForm, requests, nextId>>
    /\ Tick
    /\ Render(app)

\* the setTimeout after a success: onClose(), setStatus('idle')
StatusTimeout(app) ==
    /\ dmStatus = "success"
    /\ dmStatus' = "idle"
    /\ UNCHANGED dmMessage
    /\ UNCHANGED <<bets, bookDeposits, startingBankroll, editingId,
                   deleteConfirmId, editForm, requests, nextId>>
    /\ Tick
    /\ Render(app)

\* the file is accepted when it yields a bet or a bankroll
Accepted(file) ==
    /\ file.kind # "invalid"
    /\ Len(betsToImport(file)) > 0 \/ bankrollToImport(file) # << >>

\* reader.onload; confirmed is the answer to confirm() of handleImportData
handleFileChange(app, file, confirmed) ==
    /\ Len(betsToImport(file)) + Len(bets) <= MaxHeld
    /\ IF Accepted(file)
       THEN LET data == [bets |-> betsToImport(file),
                         startingBankroll |-> bankrollToImport(file)]
            IN  /\ IF app = "cloud" THEN handleImportDataCloud(data, confirmed)
                   ELSE handleImportData(data, confirmed)
                /\ dmStatus' = "success"
                /\ dmMessage' = Message("Successfully loaded bets!",
                                        Len(betsToImport(file)))
       ELSE /\ dmStatus' = "error"
            /\ dmMessage' = Message("Failed to load file.", 0)
            /\ UNCHANGED <<bets, startingBankroll>>
    /\ UNCHANGED <<bookDeposits, editingId, deleteConfirmId, editForm,
                   requests, nextId>>
    /\ Tick
    /\ Render(app)

\* reader.onerror
readerOnError(app) ==
    /\ dmStatus' = "error"
    /\ dmMessage' = Message("Error reading file.", 0)
    /\ UNCHANGED <<bets, bookDeposits, startingBankroll, editingId,
                   deleteConfirmId, editForm, requests, nextId>>
    /\ Tick
    /\ Render(app)

----------------------------------------------------------------------------
(* The two apps *)

InitApp(app) ==
    /\ bets = << >>
    /\ bookDeposits = << >>
    /\ startingBankroll = << >>
    /\ bankrollStats =
           IF app = "cloud" THEN << calculateBankrollStats(<< >>, << >>) >>
           ELSE << calculateBankrollStatsSingle(0, << >>) >>
    /\ bookBalances =
           IF app = "cloud" THEN calculateBookBalances(<< >>, << >>) ELSE << >>
    /\ advancedStats = << calculateAdvancedStats(<< >>) >>
    /\ bankrollHistory = calculateBankrollHistory(0, << >>)
    /\ pc = "rendered"
    /\ editingId = 0
    /\ deleteConfirmId = 0
    /\ editForm = << >>
    /\ dmStatus = "idle"
    /\ dmMessage = Message("", 0)
    /\ requests = {}
    /\ nextId = 1
    /\ steps = 0

NextApp(app) ==
    \/ \E form \in FormInputs : BetForm_handleSubmit(app, form)
    \/ \E id \in Ids(bets) : \E status \in BetStatus : StatusButton(app, id, status)
    \/ \E id \in Ids(bets) : handleStartEdit(app, id)
    \/ \E e \in EditInputs : handleInputChange(app, e[1], e[2])
    \/ handleCancelEdit(app)
    \/ handleSaveEdit(app)
    \/ \E id \in Ids(bets) : DeleteButton(app, id)
    \/ CancelDelete(app)
    \/ ConfirmDelete(app)
    \/ handleDownload(app)
    \/ StatusTimeout(app)
    \/ \E file \in Files(app) : \E confirmed \in BOOLEAN :
           handleFileChange(app, file, confirmed)
    \/ readerOnError(app)

Init == InitApp("cloud")

Next ==
    \/ NextApp("cloud")
    \/ \E mode \in {"deposit", "withdraw", "set"} : \E val \in {50000} :
           BankrollModal_handleSubmit("DraftKings", mode, val)
    \/ InsertResponse
    \/ DeleteResponse

Spec == Init /\ [][Next]_vars

InitLocal == InitApp("local")

NextLocal ==
    \/ NextApp("local")
    \/ \E amount \in {50000} : handleSetBankroll(amount)

SpecLocal == InitLocal /\ [][NextLocal]_vars

----------------------------------------------------------------------------
(* Properties of the running app *)

\* the files the import claim calls malformed: neither an array nor an
\* object, an object without a bets array, a bankroll that is no number
Malformed(file) ==
    \/ file.kind \in {"invalid", "scalar"}
    \/ file.kind = "object" /\ file.bets = << >>
    \/ /\ file.kind = "object"
       /\ file.startingBankroll.t = "string"
       /\ ~IsFiniteNumber(NumberOfString(file.startingBankroll.s))

\* C5: when the file picked for import is malformed (not an array or an
\* object, an object without a bets array, a bankroll that is not numeric),
\* handleFileChange rejects it: the import callback is not applied, so the
\* bets, the starting bankroll and the deposits are what they were, and the
\* error status is shown.
C5_MalformedImportRejected ==
    [][ \A file \in Files("local") : \A confirmed \in BOOLEAN :
            (Malformed(file) /\ handleFileChange("local", file, confirmed))
                => /\ bets' = bets
                   /\ startingBankroll' = startingBankroll
                   /\ bookDeposits' = bookDeposits
                   /\ dmStatus' = "error" ]_vars

\* C6: importing, with the user confirming, the very file handleDownload
\* writes in the current state leaves the BankrollState of
\* calculateBankrollStats as it was before the export.
C6_ExportImportRoundTrip ==
    [][ handleFileChange("cloud", Stringify(currentData("cloud")), TRUE)
            => bankrollStats' = bankrollStats ]_vars

StatusOf(bs, id) == Row(bs, id).status

\* C10: a bet added through the form enters as PENDING; a pending row offers
\* Won, Lost and Push and a settled row offers Undo; and the status of a bet
\* held before and after a step differs only when the step is a status
\* button of that bet (an import, which brings a whole log, is left aside).
C10_StatusStateMachine ==
    [][ /\ \A form \in FormInputs :
               BetForm_handleSubmit("local", form)
                   => bets'[1].id = nextId /\ bets'[1].status = PENDING
        /\ \A i \in 1..Len(bets) :
               bets[i].id # editingId
                   => IF bets[i].status = PENDING
                      THEN \A s \in {WON, LOST, PUSH} : StatusOffered(bets[i], s)
                      ELSE StatusOffered(bets[i], PENDING)
        /\ \A id \in Ids(bets) \cap Ids(bets') :
               StatusOf(bets', id) # StatusOf(bets, id)
                   => \/ \E s \in BetStatus : StatusButton("local", id, s)
                      \/ \E file \in Files("local") : \E confirmed \in BOOLEAN :
                             handleFileChange("local", file, confirmed) ]_vars

\* C11: every bet the app holds has potentialProfit equal to
\* calculatePotentialProfit(wager, odds) of its current wager and odds, after
\* every step (add through the form, save of an edit, status update among
\* them); and a step that closes the edit row while its wager or odds is
\* empty or 0 leaves the bets as they were.
C11_PotentialProfitInSync ==
    [][ /\ \A i \in 1..Len(bets') :
               bets'[i].potentialProfit =
                   calculatePotentialProfit(bets'[i].wager, bets'[i].odds)
        /\ ( /\ EditRowShown
             /\ editForm[1].wager = 0 \/ editForm[1].odds = 0
             /\ editingId' = 0 /\ editForm' = << >> )
               => bets' = bets ]_vars

\* a bet whose wager and odds were both edited and saved, then settled
C11_Witness ==
    \E i \in 1..Len(bets) :
        /\ bets[i].id = 1
        /\ bets[i].wager = 3000 /\ bets[i].odds = 150
        /\ bets[i].potentialProfit = 4500
        /\ bets[i].status = WON

----------------------------------------------------------------------------
(* Properties of calculateBankrollStats and calculateBookBalances, checked *)
(* under SpecCalc.  bankrollStats holds the result of the revision with    *)
(* per-book deposits; calculateBankrollStatsSingle is applied to the same  *)
(* bets.                                                                   *)

\* calculateBankrollStats has just returned
StatsReturned == pc = "bookBalances"

\* calculateBookBalances has just returned
BooksReturned == pc = "advancedStats"

WithStatus(bs, S) == { i \in DOMAIN bs : bs[i].status \in S }

\* the bets of bs that are not pending, in order
WithoutPending(bs) == FilterNotPending(bs, Len(bs))

\* the money-weighted return of the claim, for a settled wager above 0
MoneyWeighted(bs) ==
    LET won == SumOver([i \in DOMAIN bs |-> bs[i].potentialProfit], WithStatus(bs, {WON}))
        lost == SumOver([i \in DOMAIN bs |-> bs[i].wager], WithStatus(bs, {LOST}))
        W == SumOver([i \in DOMAIN bs |-> bs[i].wager], WithStatus(bs, {WON, LOST, PUSH}))
    IN  [won |-> won, lost |-> lost, W |-> W]

\* C12: roi of calculateBankrollStats equals (totalWon - totalLost) / W x 100
\* with totalWon the sum of potentialProfit over WON bets, totalLost the sum
\* of wager over LOST bets and W the sum of wager over the settled bets (WON,
\* LOST, PUSH); with no settled wager roi is 0; the pending bets enter
\* neither side: without them roi is the same.
C12_MoneyWeightedRoi ==
    StatsReturned =>
        LET e == MoneyWeighted(bets)
            expected == IF e.W > 0 THEN JsDiv((e.won - e.lost) * 100, e.W)
                        ELSE JsInt(0)
        IN  /\ bankrollStats[1].roi = expected
            /\ bankrollStats[1].totalWon = e.won
            /\ bankrollStats[1].totalLost = e.lost
            /\ calculateBankrollStatsSingle(0, bets).roi = expected
            /\ calculateBankrollStatsSingle(0, WithoutPending(bets)).roi
                   = bankrollStats[1].roi

\* a win of 50.00 on 25.00, a push of 15.00 and nothing else: 50 / 40 x 100
C12_Witness ==
    /\ StatsRendered
    /\ Len(bets) = 2
    /\ bets[1].status = WON /\ bets[1].wager = 2500 /\ bets[1].odds = 200
    /\ bets[2].status = PUSH /\ bets[2].wager = 1500
    /\ bankrollStats[1].roi = JsInt(125)

\* the sum of the ratios f[i] over a finite set of indices
RECURSIVE SumRatios(_, _)
SumRatios(f, S) ==
    IF S = {} THEN JsInt(0)
    ELSE LET i == CHOOSE x \in S : TRUE IN JsAdd(f[i], SumRatios(f, S \ {i}))

\* the unit profit of the claim
UnitWin(odds) == IF odds > 0 THEN JsDiv(odds, 100) ELSE JsDiv(100, Abs(odds))

\* the flat return of the claim, for at least one WON or LOST bet
FlatReturn(bs) ==
    LET won == WithStatus(bs, {WON})
        lost == WithStatus(bs, {LOST})
        units == JsAdd(SumRatios([i \in DOMAIN bs |-> UnitWin(bs[i].odds)], won),
                       JsInt(0 - Cardinality(lost)))
        n == Cardinality(won) + Cardinality(lost)
    IN  IF n > 0 THEN JsOver(JsScale(units, 100), n) ELSE JsInt(0)

OtherWagers == {0, 99900}

\* C13: flatROI of calculateBankrollStats equals 100 x (sum over the WON bets
\* of the unit profit, odds/100 for odds > 0 and 100/|odds| otherwise, minus
\* the number of LOST bets) / (number of WON bets + number of LOST bets), and
\* 0 without such bets; PUSH and PENDING bets change neither side (without
\* them flatROI is the same), and no bet's wager affects it.
C13_FlatRoi ==
    StatsReturned =>
        LET wonLost == SelectSeq(bets, LAMBDA b : b.status \in {WON, LOST})
        IN  /\ bankrollStats[1].flatROI = FlatReturn(bets)
            /\ calculateBankrollStatsSingle(0, bets).flatROI = FlatReturn(bets)
            /\ calculateBankrollStatsSingle(0, wonLost).flatROI
                   = bankrollStats[1].flatROI
            /\ \A i \in DOMAIN bets : \A w \in OtherWagers :
                   calculateBankrollStatsSingle(0, [bets EXCEPT ![i].wager = w]).flatROI
                       = bankrollStats[1].flatROI

\* a win at -200 (half a unit), a loss: (0.5 - 1) / 2 x 100
C13_Witness ==
    /\ StatsRendered
    /\ Len(bets) = 2
    /\ bets[1].status = WON /\ bets[1].odds = -200
    /\ bets[2].status = LOST
    /\ bankrollStats[1].flatROI = JsInt(-25)

\* a pending bet that is added to the collection
AddedPending ==
    { MkBet(9, 1, "NFL", sb, "Lakers -5.5", st.odds, st.wager, PENDING, 9) :
        sb \in InputBooks, st \in InputStakes }

\* the fields of BankrollState a pending bet is to leave alone
Settled(stats) ==
    << stats.wins, stats.losses, stats.pushes, stats.totalWagered,
       stats.totalWon, stats.totalLost, stats.roi, stats.flatROI >>

\* C14: adding a PENDING bet to a bet collection leaves wins, losses, pushes,
\* totalWagered, totalWon, totalLost, roi and flatROI of calculateBankrollStats
\* unchanged and lowers currentBalance by exactly the wager of that bet.
C14_PendingBetFrame ==
    StatsReturned =>
        \A p \in AddedPending :
            LET after == calculateBankrollStats(bookDeposits, << p >> \o bets)
                single == calculateBankrollStatsSingle(0, bets)
                singleAfter == calculateBankrollStatsSingle(0, << p >> \o bets)
            IN  /\ Settled(after) = Settled(bankrollStats[1])
                /\ after.currentBalance = bankrollStats[1].currentBalance - p.wager
                /\ Settled(singleAfter) = Settled(single)
                /\ singleAfter.currentBalance = single.currentBalance - p.wager

----------------------------------------------------------------------------
(* calculateBookBalances on every order of a bet collection *)

MaxOrderBets == 3

\* book and status vary; the stake alternates along the list
OrderChoices == InputBooks \X BetStatus

OrderInput(n, c) ==
    [ i \in 1..n |->
        LET st == IF i % 2 = 1 THEN [wager |-> 1500, odds |-> -200]
                  ELSE [wager |-> 2500, odds |-> 200]
        IN  MkBet(i, 1, "NFL", c[i][1], "Lakers -5.5", st.odds, st.wager,
                  c[i][2], n + 1 - i) ]

InitOrder ==
    /\ \E n \in 0..MaxOrderBets : \E c \in [1..n -> OrderChoices] :
           bets = OrderInput(n, c)
    /\ bookDeposits = << [sportsbook |-> "FanDuel", deposited |-> 5000] >>
    /\ bankrollStats = << >>
    /\ bookBalances = << >>
    /\ advancedStats = << >>
    /\ bankrollHistory = << >>
    /\ pc = "bookBalances"
    /\ startingBankroll = << >>
    /\ editingId = 0
    /\ deleteConfirmId = 0
    /\ editForm = << >>
    /\ dmStatus = "idle"
    /\ dmMessage = Message("", 0)
    /\ requests = {}
    /\ nextId = 1
    /\ steps = 0

NextOrder == RenderBookBalances

SpecOrder == InitOrder /\ [][NextOrder]_vars

\* the orders in which a collection of n bets can be held
BetOrders(n) ==
    { p \in [1..n -> 1..n] : \A i, j \in 1..n : p[i] = p[j] => i = j }

----------------------------------------------------------------------------
(* The sport classifier on the records of a file.  A record holds a        *)
(* matchup and a pick ("" when the field is missing or empty), a date (0   *)
(* when missing) and a sport ("" when missing or empty).  The map of       *)
(* handleImportData is applied to the records of one file.                 *)

MaxRecords == 1

SPORTS ==
    << "NFL", "NBA", "MLB", "NHL", "NCAAF", "NCAAB", "UFC", "Tennis", "Soccer",
       "Golf", "F1", "Esports", "Other" >>

InputMatchups ==
    { "", "Lakers vs Celtics", "Alabama vs Auburn", "Alabama vs Ohio State",
      "Texas vs Alabama", "New York Knicks vs Celtics", "Company Cup Final",
      "Djokovic vs Alcaraz", "Gonzaga vs UAB", "Rangers vs Kings",
      "Texas Rangers vs Kings" }

InputPicks ==
    { "", "Lakers -5.5", "Over 145.5", "O 145.5", "U 45.5", "Alabama 1st Half" }

InputRecordDates == {0, 1, 2}

InputSports == { "", "Other", "NBA", "Tennis" }

Record(matchup, pick, date, sport) ==
    [ MkBet(9, date, sport, "DraftKings", pick, 200, 2500, WON, 1)
        EXCEPT !.matchup = matchup ]

\* every text and date without a sport, and every sport value on two texts
InputRecords ==
    { Record(m, p, d, "") : m \in InputMatchups, p \in InputPicks,
                            d \in InputRecordDates }
    \cup { Record(m, "", 1, sp) : m \in {"Lakers vs Celtics", "Alabama vs Auburn"},
                                  sp \in InputSports }

InitSport ==
    /\ \E n \in 0..MaxRecords : bets \in [1..n -> InputRecords]
    /\ bookDeposits = << >>
    /\ bankrollStats = << >>
    /\ bookBalances = << >>
    /\ advancedStats = << >>
    /\ bankrollHistory = << >>
    /\ pc = "file"
    /\ startingBankroll = << >>
    /\ editingId = 0
    /\ deleteConfirmId = 0
    /\ editForm = << >>
    /\ dmStatus = "idle"
    /\ dmMessage = Message("", 0)
    /\ requests = {}
    /\ nextId = 1
    /\ steps = 0

\* data.bets.map(...) of handleImportData, on the records of the file
MapRecords(app) ==
    /\ pc = "file"
    /\ bets' = ProcessedBets(app, bets)
    /\ pc' = app
    /\ UNCHANGED <<bookDeposits, bankrollStats, bookBalances, advancedStats,
                   bankrollHistory>>
    /\ UNCHANGED uiVars

NextSport ==
    \/ MapRecords("local")
    \/ MapRecords("cloud")

SpecSport == InitSport /\ [][NextSport]_vars

----------------------------------------------------------------------------
(* Properties of the classifier, checked under SpecSport *)

ProLeagues ==
    { <<"NFL", NFL_TEAMS>>, <<"NBA", NBA_TEAMS>>,
      <<"MLB", MLB_TEAMS>>, <<"NHL", NHL_TEAMS>> }

ProTags == { l[1] : l \in ProLeagues }

\* the city or state the override table asks for with an ambiguous nickname
ContextOf(nickname) ==
    CASE nickname \in {"GIANTS", "JETS"} -> {"NY", "NEW YORK"}
      [] nickname = "RANGERS" -> {"TEXAS"}
      [] nickname = "KINGS" -> {"SACRAMENTO"}
      [] nickname = "CARDINALS" -> {"ARIZONA"}
      [] nickname = "PANTHERS" -> {"CAROLINA"}
      [] OTHER -> {}

\* the text names the team: by its full name, or by its nickname, and for an
\* ambiguous nickname with the city or state next to it
NamesTeam(text, team) ==
    \/ Includes(text, team.upper)
    \/ /\ Includes(text, team.nickname)
       /\ ContextOf(team.nickname) # {}
              => \E c \in ContextOf(team.nickname) : Includes(text, c)

NamesTeamOf(text, teams) == \E i \in 1..Len(teams) : NamesTeam(text, teams[i])

\* a step in which the classifier of calculations.ts tags record i
Classified(i) ==
    /\ pc = "file" /\ pc' = "local"
    /\ i \in DOMAIN bets
    /\ bets[i].sport = ""

\* C16: inferSportFromBet returns NFL, NBA, MLB or NHL only for a text that
\* holds the full name or the nickname of a team of that league, where an
\* ambiguous nickname (Giants, Jets, Rangers, Kings, Cardinals, Panthers)
\* counts only together with its city or state; a text that names no
\* professional team gets no professional tag.
C16_ProTagNeedsTeam ==
    [][ \A i \in DOMAIN bets :
          Classified(i) =>
            LET text == TextOf(bets[i])
                tag == bets'[i].sport
            IN  /\ \A l \in ProLeagues : tag = l[1] => NamesTeamOf(text, l[2])
                /\ (\A l \in ProLeagues : ~NamesTeamOf(text, l[2]))
                       => tag \notin ProTags ]_vars

Keywords ==
    { "UFC", "MMA", "TENNIS", "ATP", "WTA", "DJOKOVIC", "ALCARAZ", "SINNER",
      "GOLF", "PGA", "LIV", "SOCCER", "EPL", "MLS", "PREMIER LEAGUE",
      "CHAMPIONS LEAGUE", "F1", "FORMULA 1", "VERSTAPPEN" }

Gazetteers ==
    { NFL_TEAMS, NBA_TEAMS, MLB_TEAMS, NHL_TEAMS, NCAAF_TEAMS, NCAAB_TEAMS }

\* no name or nickname of a team and no keyword occurs in the text
NothingOccurs(text) ==
    /\ \A teams \in Gazetteers : \A k \in 1..Len(teams) :
           ~Includes(text, teams[k].upper) /\ ~Includes(text, teams[k].nickname)
    /\ \A w \in Keywords : ~Includes(text, w)

\* C17: for every record, also one without matchup, pick or date, both
\* revisions of inferSportFromBet return one tag of SPORTS, and 'Other' when
\* no team of a gazetteer and no sport keyword occurs in the text.
C17_AlwaysOneTag ==
    [][ \A i \in DOMAIN bets :
          (pc = "file" /\ pc' \in {"local", "cloud"} /\ bets[i].sport = "") =>
            LET text == TextOf(bets[i])
                tag == bets'[i].sport
            IN  /\ tag \in Range(SPORTS)
                /\ NothingOccurs(text) => tag = "Other" ]_vars

\* C18: on import a record whose sport is missing, empty or 'Other' is
\* stored with the sport inferSportFromBet gives it, and a record with any
\* other sport keeps it.
C18_ImportInfersSport ==
    [][ (pc = "file" /\ pc' \in {"local", "cloud"}) =>
           /\ Len(bets') = Len(bets)
           /\ \A i \in DOMAIN bets :
                 bets'[i].sport =
                     IF bets[i].sport \in {"", "Other"}
                     THEN (IF pc' = "local" THEN inferSportFromBet(bets[i])
                           ELSE inferSportFromBetCloud(bets[i]))
                     ELSE bets[i].sport ]_vars

\* a college game of September without sport was imported as NCAAF
C18_Witness ==
    /\ pc = "local"
    /\ Len(bets) = 1
    /\ bets[1].matchup = "Alabama vs Auburn" /\ bets[1].pick = "Over 145.5"
    /\ bets[1].date = 2
    /\ bets[1].sport = "NCAAF"

----------------------------------------------------------------------------
(* Frame of the four derivations, checked under SpecCalc *)

\* C19: calculateBookBalances, calculateBankrollStats, calculateAdvancedStats
\* and calculateBankrollHistory leave the bets and the deposits they are given
\* as they were (same elements, same order, same field values), and a second
\* call on them returns the result of the first.
C19_InputsUnchanged ==
    [][ /\ bets' = bets
        /\ bookDeposits' = bookDeposits
        /\ pc = "bankrollStats" =>
               bankrollStats' = << calculateBankrollStats(bookDeposits', bets') >>
        /\ pc = "bookBalances" =>
               bookBalances' = calculateBookBalances(bets', bookDeposits')
        /\ pc = "advancedStats" =>
               advancedStats' = << calculateAdvancedStats(bets') >>
        /\ pc = "bankrollHistory" =>
               bankrollHistory' =
                   calculateBankrollHistory(bankrollStats[1].startingBalance, bets') ]_vars

\* all four ran on a list that is neither newest first nor free of pending bets
C19_Witness ==
    /\ pc = "rendered"
    /\ Len(bets) = 3
    /\ bets[1].createdAt < bets[2].createdAt
    /\ bets[1].status = WON /\ bets[2].status = PENDING /\ bets[3].status = LOST
    /\ Len(advancedStats[1].last10) = 2

----------------------------------------------------------------------------
(* calculatePotentialProfit on its own.  The source computes in binary     *)
(* floating point: when wager x odds / 100 (or wager x 100 / |odds|) lies  *)
(* exactly half a cent between two cents, Math.round(profit * 100) sees a  *)
(* product that may lie on either side, so both cents are outcomes; in     *)
(* every other case the rounding error is far below the distance to the    *)
(* half cent and the outcome is the nearest cent.                          *)

MaxWagerCents == 40

InputOdds == {-400, -250, -200, -110, -100, -50, 0, 50, 100, 110, 150, 250}

\* the exact profit in cents is Numerator / Denominator
ProfitNumerator(wager, odds) == IF odds > 0 THEN wager * odds ELSE wager * 100

ProfitDenominator(odds) == IF odds > 0 THEN 100 ELSE Abs(odds)

\* mutant: the fraction of a cent is cut off
ProfitOutcomes_Truncates(wager, odds) ==
    IF odds = 0 THEN {0}
    ELSE {ProfitNumerator(wager, odds) \div ProfitDenominator(odds)}

\* the values Math.round(profit * 100) / 100 can take, in cents
ProfitOutcomes(wager, odds) ==
    IF odds = 0 THEN {0}
    ELSE LET n == ProfitNumerator(wager, odds)
             d == ProfitDenominator(odds)
             below == n \div d
             rest == n % d
         IN  IF 2 * rest < d THEN {below}
             ELSE IF 2 * rest > d THEN {below + 1}
             ELSE {below, below + 1}

\* the draft of a bet whose wager and odds were just entered
Draft(wager, odds) ==
    [ MkBet(1, 1, "NBA", "DraftKings", "Lakers -5.5", odds, wager, PENDING, 1)
        EXCEPT !.potentialProfit = 0 ]

InitProfit ==
    /\ \E wager \in 1..MaxWagerCents : \E odds \in InputOdds :
           bets = << Draft(wager, odds) >>
    /\ bookDeposits = << >>
    /\ bankrollStats = << >>
    /\ bookBalances = << >>
    /\ advancedStats = << >>
    /\ bankrollHistory = << >>
    /\ pc = "draft"
    /\ startingBankroll = << >>
    /\ editingId = 0
    /\ deleteConfirmId = 0
    /\ editForm = << >>
    /\ dmStatus = "idle"
    /\ dmMessage = Message("", 0)
    /\ requests = {}
    /\ nextId = 1
    /\ steps = 0

\* const profit = calculatePotentialProfit(Number(wager), Number(odds))
UpdateProfit ==
    /\ pc = "draft"
    /\ \E profit \in ProfitOutcomes(bets[1].wager, bets[1].odds) :
           bets' = << [bets[1] EXCEPT !.potentialProfit = profit] >>
    /\ pc' = "profit"
    /\ UNCHANGED <<bookDeposits, bankrollStats, bookBalances, advancedStats,
                   bankrollHistory>>
    /\ UNCHANGED uiVars

NextProfit == UpdateProfit

SpecProfit == InitProfit /\ [][NextProfit]_vars

\* C20: in cents, for wager > 0 and odds # 0 calculatePotentialProfit is
\* wager x odds / 100 (odds > 0) or wager x 100 / |odds| (odds < 0) rounded to
\* the nearest cent, it is never negative, and no smaller wager at the same
\* odds gives more; for odds = 0 it is 0.
C20_PotentialProfit ==
    pc = "profit" =>
        LET wager == bets[1].wager
            odds == bets[1].odds
            profit == bets[1].potentialProfit
        IN  /\ odds > 0 => 2 * Abs(100 * profit - wager * odds) <= 100
            /\ odds < 0 => 2 * Abs(Abs(odds) * profit - wager * 100) <= Abs(odds)
            /\ profit >= 0
            /\ \A smaller \in 1..(wager - 1) :
                   \A less \in ProfitOutcomes(smaller, odds) : less <= profit
            /\ odds = 0 => profit = 0
            /\ calculatePotentialProfit(wager, odds) \in ProfitOutcomes(wager, odds)

\* 0.37 at -110: 33.63... cents, rounded up to 34
C20_Witness ==
    /\ pc = "profit"
    /\ bets[1].wager = 37 /\ bets[1].odds = -110
    /\ bets[1].potentialProfit = 34

----------------------------------------------------------------------------
(* calculateBankrollHistory on bet collections of several dates, in every  *)
(* order: the render of App stands before its fourth useMemo, the first    *)
(* three are evaluated.                                                    *)

MaxChartBets == 3

ChartDates == {1, 2, 3}

ChartBooks == {"DraftKings", "ESPN Bet"}

\* book, status and date vary; the stake alternates along the list
ChartChoices == ChartBooks \X BetStatus \X ChartDates

ChartInput(n, c) ==
    [ i \in 1..n |->
        LET st == IF i % 2 = 1 THEN [wager |-> 1500, odds |-> -200]
                  ELSE [wager |-> 2500, odds |-> 200]
        IN  MkBet(i, c[i][3], "NFL", c[i][1], "Lakers -5.5", st.odds, st.wager,
                  c[i][2], n + 1 - i) ]

InitChart ==
    /\ \E n \in 0..MaxChartBets : \E c \in [1..n -> ChartChoices] :
           bets = ChartInput(n, c)
    /\ bookDeposits = << [sportsbook |-> "DraftKings", deposited |-> 100000] >>
    /\ bankrollStats = << calculateBankrollStats(bookDeposits, bets) >>
    /\ bookBalances = calculateBookBalances(bets, bookDeposits)
    /\ advancedStats = << calculateAdvancedStats(bets) >>
    /\ bankrollHistory = << >>
    /\ pc = "bankrollHistory"
    /\ startingBankroll = << >>
    /\ editingId = 0
    /\ deleteConfirmId = 0
    /\ editForm = << >>
    /\ dmStatus = "idle"
    /\ dmMessage = Message("", 0)
    /\ requests = {}
    /\ nextId = 1
    /\ steps = 0

NextChart == RenderBankrollHistory

SpecChart == InitChart /\ [][NextChart]_vars

\* C21: the points of calculateBankrollHistory after the Start point are in
\* strictly ascending date order, so no date is repeated, whatever the order
\* of the input bets.
C21_HistoryAscending ==
    HistoryRendered =>
        /\ \A i \in 2..Len(bankrollHistory) : bankrollHistory[i].date.label = "date"
        /\ \A i, j \in 2..Len(bankrollHistory) :
               i < j => bankrollHistory[i].date.day < bankrollHistory[j].date.day

\* three settled bets given with the dates 3, 1, 3: neither in date order nor
\* one bet per date; the points are those of day 1 and day 3
C21_Witness ==
    /\ HistoryRendered
    /\ Len(bets) = 3
    /\ \A i \in 1..3 : bets[i].status \in {WON, LOST}
    /\ bets[1].date = 3 /\ bets[2].date = 1 /\ bets[3].date = 3
    /\ Len(bankrollHistory) = 3
    /\ bankrollHistory[2].date = DateLabel(1)
    /\ bankrollHistory[3].date = DateLabel(3)

----------------------------------------------------------------------------
(* The bankroll modal of the cloud revision on its own: a bet collection   *)
(* as loaded from the store, and submissions of the modal's form.          *)

ModalBooks == {"DraftKings", "FanDuel"}

ModalModes == {"deposit", "withdraw", "set"}

\* what the amount field holds at submit, in cents
ModalAmounts == {1000, 3000}

\* the bets the app holds while the modal is used: a book in profit, a book
\* at a loss with a stake outstanding
ModalBets ==
    { << >>,
      << MkBet(1, 1, "NFL", "DraftKings", "Lakers -5.5", 200, 2500, WON, 1) >>,
      << MkBet(2, 1, "NFL", "FanDuel", "Lakers -5.5", 200, 2500, PENDING, 2),
         MkBet(1, 1, "NFL", "FanDuel", "Lakers -5.5", 200, 2500, LOST, 1) >>,
      << MkBet(2, 1, "NFL", "FanDuel", "Lakers -5.5", 200, 2500, LOST, 2),
         MkBet(1, 1, "NFL", "DraftKings", "Lakers -5.5", 200, 2500, WON, 1) >> }

\* the rows of book_balances the app loads: one per sportsbook
ModalDeposits ==
    { << >>,
      << [sportsbook |-> "FanDuel", deposited |-> 5000] >>,
      << [sportsbook |-> "FanDuel", deposited |-> 5000],
         [sportsbook |-> "DraftKings", deposited |-> 1000] >> }

InitModal ==
    /\ bets \in ModalBets
    /\ bookDeposits \in ModalDeposits
    /\ startingBankroll = << >>
    /\ bankrollStats = << calculateBankrollStats(bookDeposits, bets) >>
    /\ bookBalances = calculateBookBalances(bets, bookDeposits)
    /\ advancedStats = << calculateAdvancedStats(bets) >>
    /\ bankrollHistory =
           calculateBankrollHistory(bankrollStats[1].startingBalance, bets)
    /\ pc = "rendered"
    /\ editingId = 0
    /\ deleteConfirmId = 0
    /\ editForm = << >>
    /\ dmStatus = "idle"
    /\ dmMessage = Message("", 0)
    /\ requests = {}
    /\ nextId = 1
    /\ steps = 0

NextModal ==
    \E book \in ModalBooks : \E mode \in ModalModes : \E val \in ModalAmounts :
        BankrollModal_handleSubmit(book, mode, val)

SpecModal == InitModal /\ [][NextModal]_vars

\* at most one entry per sportsbook
OnePerBook(deps) ==
    \A i, j \in 1..Len(deps) : deps[i].sportsbook = deps[j].sportsbook => i = j

\* the entries of the sportsbooks other than sb, in list order
RECURSIVE EntriesOfOthers(_, _, _)
EntriesOfOthers(deps, sb, k) ==
    IF k = 0 THEN << >>
    ELSE IF deps[k].sportsbook = sb THEN EntriesOfOthers(deps, sb, k - 1)
         ELSE Append(EntriesOfOthers(deps, sb, k - 1), deps[k])

\* the amounts a call may be given: every multiple of five dollars that a
\* book's deposit can hold
CallAmounts == { 500 * k : k \in (0 - (MaxDeposit \div 500))..(MaxDeposit \div 500) }

\* C22: from a deposit list with at most one entry per sportsbook, every
\* call handleUpdateBookDeposit(sportsbook, amount) leaves at most one entry
\* per sportsbook, makes the entry of that sportsbook hold deposited = amount,
\* and leaves the entries of all other sportsbooks as they were.
C22_OneEntryPerBook ==
    [][ \A sb \in ModalBooks : \A amount \in CallAmounts :
            (OnePerBook(bookDeposits) /\ handleUpdateBookDeposit(sb, amount)) =>
                /\ OnePerBook(bookDeposits')
                /\ \E i \in 1..Len(bookDeposits') :
                       bookDeposits'[i] = [sportsbook |-> sb, deposited |-> amount]
                /\ EntriesOfOthers(bookDeposits', sb, Len(bookDeposits'))
                       = EntriesOfOthers(bookDeposits, sb, Len(bookDeposits)) ]_vars

\* after three calls: an entry was appended for DraftKings, the FanDuel entry
\* was replaced in place, then the DraftKings entry was replaced
C22_Witness ==
    /\ steps = 3
    /\ bookDeposits = << [sportsbook |-> "FanDuel", deposited |-> 8000],
                         [sportsbook |-> "DraftKings", deposited |-> 4000] >>

\* bookBalances.find(b => b.sportsbook === sportsbook) on a given list
BalanceOf(bb, sportsbook) ==
    bb[CHOOSE i \in 1..Len(bb) : bb[i].sportsbook = sportsbook]

\* C30: in the per-book bankroll modal a Set Balance with value v makes the
\* book's recomputed currentBalance equal v and leaves its bet-derived profit
\* and loss unchanged, a Deposit of v raises deposited by v, and after every
\* submission the stored deposited amount of every book is not negative.
C30_ModalSubmissions ==
    [][ \A book \in ModalBooks : \A mode \in ModalModes : \A val \in ModalAmounts :
            BankrollModal_handleSubmit(book, mode, val) =>
                LET before == BalanceOf(bookBalances, book)
                    after == BalanceOf(bookBalances', book)
                IN  /\ mode = "set" =>
                           /\ after.currentBalance = val
                           /\ after.currentBalance - after.deposited
                                  = before.currentBalance - before.deposited
                    /\ mode = "deposit" => after.deposited = before.deposited + val
                    /\ \A i \in 1..Len(bookDeposits') :
                           bookDeposits'[i].deposited >= 0 ]_vars

----------------------------------------------------------------------------
(* The classifier of the local revision on records about college teams:    *)
(* one record of a file without a sport, in every month and without a date.*)

CollegeMatchups ==
    { "Alabama vs Auburn", "Alabama vs Ohio State", "Gonzaga vs UAB",
      "Texas vs Alabama", "Lakers vs Celtics" }

CollegePicks ==
    { "", "Over 145.5", "Under 45.5", "O 145.5", "U 45.5", "O 95.5", "U 80",
      "O 110", "U 79.5", "O 111.5", "First Touchdown", "1st Half Touchdown",
      "1st Half U 45.5", "Touchdown O 145.5", "Alabama 1st Half" }

\* no date, and a date of every month
CollegeDates == 0..14

InitCollege ==
    /\ \E mt \in CollegeMatchups : \E p \in CollegePicks : \E d \in CollegeDates :
           bets = << Record(mt, p, d, "") >>
    /\ bookDeposits = << >>
    /\ bankrollStats = << >>
    /\ bookBalances = << >>
    /\ advancedStats = << >>
    /\ bankrollHistory = << >>
    /\ pc = "file"
    /\ startingBankroll = << >>
    /\ editingId = 0
    /\ deleteConfirmId = 0
    /\ editForm = << >>
    /\ dmStatus = "idle"
    /\ dmMessage = Message("", 0)
    /\ requests = {}
    /\ nextId = 1
    /\ steps = 0

NextCollege == MapRecords("local")

SpecCollege == InitCollege /\ [][NextCollege]_vars

\* no professional team is matched, a college team is, and every matched
\* college team is in the football and in the basketball gazetteer
DualSportOnly(bet) ==
    LET text == TextOf(bet)
        matched == Range(getMatchedTeams(text, NCAAF_TEAMS))
                       \cup Range(getMatchedTeams(text, NCAAB_TEAMS))
    IN  /\ \A league \in ProLeagues : ~checkProList(text, league[2])
        /\ matched # {}
        /\ \A t \in matched :
               t.name \in TeamNames(NCAAF_TEAMS) \cap TeamNames(NCAAB_TEAMS)

FootballKeyword(text) ==
    Includes(text, "CFB") \/ Includes(text, "BOWL") \/ Includes(text, "TOUCHDOWN")

BasketballKeyword(text) ==
    \/ Includes(text, "CBB") \/ Includes(text, "MARCH MADNESS")
    \/ Includes(text, "TOURNAMENT") \/ Includes(text, "HALF")

\* the point total a reader takes from the Over/Under of a pick, written out
\* or abbreviated: << >> when the pick has none
OverUnderTotal(bet) ==
    CASE bet.pick = "Over 145.5" -> << 145 >>
      [] bet.pick = "Under 45.5" -> << 45 >>
      [] OTHER -> TextOf(bet).total

\* the tags the stated order of decisions allows
DecisionOrder(bet, total) ==
    LET text == TextOf(bet)
        month == MonthOf(bet.date)
    IN  IF FootballKeyword(text) \/ BasketballKeyword(text)
        THEN (IF FootballKeyword(text) THEN {"NCAAF"} ELSE {})
                 \cup (IF BasketballKeyword(text) THEN {"NCAAB"} ELSE {})
        ELSE IF total # << >> /\ total[1] < 80 THEN {"NCAAF"}
        ELSE IF total # << >> /\ total[1] > 110 THEN {"NCAAB"}
        ELSE IF HasDate(bet) /\ month \in {8, 9, 10} THEN {"NCAAF"}
        ELSE IF HasDate(bet) /\ month \in {1, 2, 3, 4} THEN {"NCAAB"}
        ELSE {"NCAAB"}

\* C23: for a text with no professional match whose matched college teams
\* are all in both gazetteers, inferSportFromBet decides by the keywords,
\* then by the point total of an Over/Under in the text (below 80 NCAAF,
\* above 110 NCAAB, 80 to 110 nothing), then by the month of the date
\* (August to October NCAAF, January to April NCAAB), and otherwise, in
\* November and December, in May to July and without a date, gives NCAAB.
C23_CollegeDecisionOrder ==
    (pc = "local" /\ DualSportOnly(bets[1])) =>
        bets[1].sport \in DecisionOrder(bets[1], OverUnderTotal(bets[1]))

----------------------------------------------------------------------------
(* calculateAdvancedStats on bet collections whose sport, sportsbook and   *)
(* pick vary: the render of App stands before its third useMemo.           *)

MaxGroupBets == 3

MaxTeamBets == 6

\* sport and sportsbook of a bet; "" is a field an imported record lacks
GroupFields ==
    { [sport |-> "NFL", sportsbook |-> "DraftKings"],
      [sport |-> "NBA", sportsbook |-> "DraftKings"],
      [sport |-> "NFL", sportsbook |-> "ESPN Bet"],
      [sport |-> "", sportsbook |-> ""] }

GroupChoices == GroupFields \X BetStatus

\* the stake of the bet at index i: wagers of 10 to 40 dollars, odds of +200
\* and -200 in turn
StakeAt(i) ==
    [wager |-> 1000 + 500 * ((3 * i) % 7), odds |-> IF i % 2 = 1 THEN 200 ELSE -200]

GroupInput(n, c) ==
    [ i \in 1..n |->
        MkBet(i, 1, c[i][1].sport, c[i][1].sportsbook, "Lakers -5.5",
              StakeAt(i).odds, StakeAt(i).wager, c[i][2], n + 1 - i) ]

\* the pick of the bet at index i when it is not a pick on the Lakers
PickAt(i) ==
    CASE i = 1 -> "Lakers -5.5"
      [] i = 2 -> "Over 145.5"
      [] i = 3 -> "O 145.5"
      [] i = 4 -> "Celtics ML"
      [] i = 5 -> "Alabama 1st Half"
      [] i = 6 -> "First Touchdown"
      [] i = 7 -> "U 45.5"
      [] OTHER -> ""

\* a settled status with the pick of the index (TRUE), or a decided bet with
\* a second pick on the Lakers (FALSE)
TeamChoices == ({WON, LOST, PUSH} \X {TRUE}) \cup ({WON, LOST} \X {FALSE})

TeamInput(n, c) ==
    [ i \in 1..n |->
        MkBet(i, 1, "NFL", "DraftKings", IF c[i][2] THEN PickAt(i) ELSE "Lakers +3",
              StakeAt(i).odds, StakeAt(i).wager, c[i][1], n + 1 - i) ]

InitAdvanced ==
    /\ \/ \E n \in 0..MaxGroupBets : \E c \in [1..n -> GroupChoices] :
              bets = GroupInput(n, c)
       \/ \E n \in 0..MaxTeamBets : \E c \in [1..n -> TeamChoices] :
              bets = TeamInput(n, c)
    /\ bookDeposits = << >>
    /\ bankrollStats = << calculateBankrollStats(bookDeposits, bets) >>
    /\ bookBalances = calculateBookBalances(bets, bookDeposits)
    /\ advancedStats = << >>
    /\ bankrollHistory = << >>
    /\ pc = "advancedStats"
    /\ startingBankroll = << >>
    /\ editingId = 0
    /\ deleteConfirmId = 0
    /\ editForm = << >>
    /\ dmStatus = "idle"
    /\ dmMessage = Message("", 0)
    /\ requests = {}
    /\ nextId = 1
    /\ steps = 0

NextAdvanced == RenderAdvancedStats

SpecAdvanced == InitAdvanced /\ [][NextAdvanced]_vars

AdvancedReturned == pc = "bankrollHistory"

\* the bets of a group: the settled bets whose field gives the key
GroupOf(field, key) ==
    { k \in DOMAIN bets : bets[k].status # PENDING /\ FieldKey(bets[k], field) = key }

GroupKeys(field) ==
    { FieldKey(bets[k], field) : k \in { j \in DOMAIN bets : bets[j].status # PENDING } }

\* WON potentialProfit minus LOST wager over the bets of a group
GroupProfit(field, key) ==
    SumOver([k \in DOMAIN bets |-> SettledEffect(bets[k])], GroupOf(field, key))

\* C24: hottestSport is the sport group with the greatest profit over the
\* settled bets and is non-null exactly when that profit is strictly
\* positive; coldestSport is the group with the least profit and is non-null
\* exactly when that profit is strictly negative; both are null when there
\* are no settled bets.
C24_HottestColdestSport ==
    AdvancedReturned =>
        LET keys == GroupKeys("sport")
            hottest == advancedStats[1].hottestSport
            coldest == advancedStats[1].coldestSport
        IN  /\ hottest # << >> <=> \E s \in keys : GroupProfit("sport", s) > 0
            /\ hottest # << >> =>
                   /\ hottest[1].name \in keys
                   /\ hottest[1].profit = GroupProfit("sport", hottest[1].name)
                   /\ \A s \in keys : GroupProfit("sport", s) <= hottest[1].profit
            /\ coldest # << >> <=> \E s \in keys : GroupProfit("sport", s) < 0
            /\ coldest # << >> =>
                   /\ coldest[1].name \in keys
                   /\ coldest[1].profit = GroupProfit("sport", coldest[1].name)
                   /\ \A s \in keys : GroupProfit("sport", s) >= coldest[1].profit
            /\ keys = {} => hottest = << >> /\ coldest = << >>

\* three sports: the newest bet has no sport and is lost, NBA comes next with
\* a win of 20 dollars, NFL last with a win of 40 dollars
C24_Witness ==
    /\ AdvancedReturned
    /\ Len(bets) = 3
    /\ bets[1].sport = "" /\ bets[1].status = LOST
    /\ bets[2].sport = "NBA" /\ bets[2].status = WON
    /\ bets[3].sport = "NFL" /\ bets[3].status = WON
    /\ advancedStats[1].hottestSport # << >>
    /\ advancedStats[1].hottestSport[1].name = "NFL"
    /\ advancedStats[1].coldestSport # << >>
    /\ advancedStats[1].coldestSport[1].name = "Unknown"

\* a group with at least one bet won or lost
Decided(field, key) ==
    \E k \in GroupOf(field, key) : bets[k].status \in {WON, LOST}

\* C25: teamPerformance has at most 5 entries, every entry is a pick group
\* with wins + losses > 0 (a group of PUSH bets only is left out), the
\* entries are in non-increasing profit order, and no group with a decided
\* bet that is left out has a profit strictly greater than an entry's.
C25_TeamPerformance ==
    AdvancedReturned =>
        LET tp == advancedStats[1].teamPerformance
            names == { tp[i].name : i \in 1..Len(tp) }
        IN  /\ Len(tp) <= 5
            /\ \A i \in 1..Len(tp) :
                   /\ tp[i].wins + tp[i].losses > 0
                   /\ tp[i].name \in GroupKeys("pick")
                   /\ Decided("pick", tp[i].name)
                   /\ tp[i].profit = GroupProfit("pick", tp[i].name)
            /\ \A i, j \in 1..Len(tp) : i < j => tp[i].profit >= tp[j].profit
            /\ \A key \in GroupKeys("pick") \ names :
                   Decided("pick", key) =>
                       \A i \in 1..Len(tp) : GroupProfit("pick", key) <= tp[i].profit

\* six bets on six picks: the Over is pushed, the five others are decided;
\* a seventh pick would not fit, here the pushed one is the one left out
C25_WitnessPush ==
    /\ AdvancedReturned
    /\ Len(bets) = 6
    /\ \A i \in 1..6 : bets[i].pick = PickAt(i)
    /\ bets[2].status = PUSH
    /\ \A i \in {1, 3, 4, 5, 6} : bets[i].status \in {WON, LOST}
    /\ Len(advancedStats[1].teamPerformance) = 5
    /\ \A i \in 1..5 : advancedStats[1].teamPerformance[i].name # "Over"

\* six decided picks: the five with the greatest profit are listed, and the
\* one left out is the first that was entered
C25_Witness ==
    /\ AdvancedReturned
    /\ Len(bets) = 6
    /\ \A i \in 1..6 : bets[i].pick = PickAt(i) /\ bets[i].status \in {WON, LOST}
    /\ bets[1].status = LOST
    /\ \A i \in 2..6 : bets[i].status = WON
    /\ Len(advancedStats[1].teamPerformance) = 5
    /\ \A i \in 1..5 : advancedStats[1].teamPerformance[i].name # "Lakers"

C28_HistoryEndsAtLedger ==
    HistoryRendered =>
        LET last == bankrollHistory[Len(bankrollHistory)]
            stats == bankrollStats[1]
            pending == { k \in DOMAIN bets : bets[k].status = PENDING }
        IN  /\ last.balance = stats.startingBalance + stats.totalWon - stats.totalLost
            /\ last.balance = stats.currentBalance
                                  + SumOver([k \in DOMAIN bets |-> bets[k].wager], pending)

----------------------------------------------------------------------------
(* Properties of the handlers of App *)

\* C26: in the cloud revision, when the delete of a bet fails, the rollback
\* puts the deleted bet back and keeps what other handlers did to the
\* collection while the request was in flight: apart from the restored bet
\* the collection is the one held when the answer arrived.
C26_DeleteRollbackKeepsChanges ==
    [][ \A r \in requests :
            ( /\ r.op = "delete"
              /\ requests' = requests \ {r}
              /\ r.id \in Ids(bets') /\ r.id \notin Ids(bets) )
                => WithoutId(bets', r.id) = bets ]_vars

\* the ids a handler may be called with: those of the held bets and two that
\* no bet has
CallIds == Ids(bets) \cup {0, nextId}

\* the bets an edit row may hand to handleEditBet: a held bet with one field
\* changed, and such a bet under an id that no bet has
CallBets ==
    { [bets[i] EXCEPT ![e[1]] = e[2]] : i \in 1..Len(bets), e \in EditInputs }
        \cup { [bets[i] EXCEPT !.id = 0] : i \in 1..Len(bets) }

\* the bets of a collection whose id is not the given one, in list order
RECURSIVE OtherBets(_, _, _)
OtherBets(bs, id, k) ==
    IF k = 0 THEN << >>
    ELSE IF bs[k].id = id THEN OtherBets(bs, id, k - 1)
         ELSE Append(OtherBets(bs, id, k - 1), bs[k])

\* after differs from before at most in the bets with the given id, which
\* stay where they are
SameElsewhere(before, after, id) ==
    /\ Len(after) = Len(before)
    /\ \A i \in 1..Len(before) : before[i].id # id => after[i] = before[i]

\* C27: handleUpdateStatus(id, status), handleEditBet(bet) and
\* handleDeleteBet(id) affect only the bet whose id matches: every other bet
\* keeps all its fields and its relative position, handleUpdateStatus changes
\* no field of the matching bet but status, and a call with an id that no bet
\* has leaves the collection unchanged.  For handleDeleteBet of the cloud
\* revision this covers the rollback of a failed delete.
C27_HandlersTouchOneBet ==
    [][ /\ \A id \in CallIds : \A status \in BetStatus :
               LET after == WithStatusOf(bets, id, status)
               IN  /\ SameElsewhere(bets, after, id)
                   /\ \A i \in 1..Len(bets) :
                          bets[i].id = id =>
                              /\ after[i].status = status
                              /\ \A f \in DOMAIN bets[i] \ {"status"} :
                                     after[i][f] = bets[i][f]
                   /\ id \notin Ids(bets) => after = bets
        /\ \A updatedBet \in CallBets :
               LET after == WithEdited(bets, updatedBet)
               IN  /\ SameElsewhere(bets, after, updatedBet.id)
                   /\ updatedBet.id \notin Ids(bets) => after = bets
        /\ \A id \in CallIds :
               LET after == WithoutId(bets, id)
               IN  /\ after = OtherBets(bets, id, Len(bets))
                   /\ id \notin Ids(bets) => after = bets
        /\ \A r \in requests :
               (r.op = "delete" /\ requests' = requests \ {r})
                   => OtherBets(bets', r.id, Len(bets')) = OtherBets(bets, r.id, Len(bets))
      ]_vars

====
